---- MODULE Spec2Model ----
(***************************************************************************)
(* Verification model of Wasatch.PY:                                       *)
(*   wasatch/WasatchDeviceWrapper.py  the controlling-side wrapper, its    *)
(*                                    three queues and the forked          *)
(*                                    continuous_poll worker               *)
(*   wasatch/BalanceAcquisition.py    the balancing loop                   *)
(*   wasatch/EEPROM.py                the configuration record, its pages  *)
(*                                    and its coefficient checks           *)
(*                                                                         *)
(* The specifications of the module:                                       *)
(*   SpecDedupe         WasatchDeviceWrapper.dedupe run, one get_nowait at *)
(*                      a time, on every bounded sequence of pending       *)
(*                      commands                                           *)
(*   Spec               the wrapper's connect, disconnect and              *)
(*                      change_setting interleaved with the                *)
(*                      continuous_poll workers it forks                   *)
(*   SpecAcquire        acquire_data in every mode, and disconnect, on a   *)
(*                      connected wrapper, interleaved with its worker     *)
(*   SpecBalance        BalanceAcquisition.balance in every mode on a      *)
(*                      device that answers with any reading               *)
(*   SpecBalanceLinear  an integration balance on a device whose peak is   *)
(*                      proportional to the integration time               *)
(*   SpecCodec          an EEPROM that parses pages, is updated from       *)
(*                      another one, generates its write buffers, which a  *)
(*                      new EEPROM parses                                  *)
(*   SpecCoeffs         coeffs_look_valid and laser_power_mW_to_percent on *)
(*                      every bounded list of coefficients                 *)
(*   SpecPrintable      printable on every bounded sequence of bytes       *)
(*   SpecDamaged        an EEPROM that parses pages of which one is None   *)
(*                      or short                                           *)
(*   SpecFair           Spec with workers that go on running               *)
(*   SpecBatch          a worker at the top of its loop that finds any     *)
(*                      bounded batch on the command queue                 *)
(*   SpecReconnect      connect, disconnect and acquire_data in any order  *)
(*                      on a wrapper that can fork more than one worker    *)
(***************************************************************************)
EXTENDS Integers, Sequences, FiniteSets, TLC

(***************************************************************************)
(* Bounds of the model.                                                    *)
(***************************************************************************)
\* longest sequence of pending commands handed to dedupe in SpecDedupe
MaxPending == 4
\* most change_setting calls in Spec
MaxCommands == 2
\* most readings one device produces in Spec
MaxReadings == 1
\* most worker processes forked in Spec
MaxWorkers == 1
\* most disconnect calls in Spec
MaxDisconnects == 1
\* most readings the device produces in SpecAcquire
MaxAcquired == 3

(***************************************************************************)
(* Messages.  Every queue carries records; Python's None (the poison       *)
(* pill) is the record NoneMsg on all three queues.                        *)
(***************************************************************************)
NoneMsg == [kind |-> "None"]

\* setting names and values used for ControlObjects
Settings == {"a", "b"}
Values == {1, 2}

ControlObject(setting, value) ==
    [kind |-> "ControlObject", setting |-> setting, value |-> value]

ControlObjects == {ControlObject(s, v) : s \in Settings, v \in Values}

\* what may sit on the command queue
CommandMsgs == ControlObjects \cup {NoneMsg}

\* all sequences over S of length at most n
SeqUpTo(S, n) == UNION {[1..k -> S] : k \in 0..n}

(***************************************************************************)
(* WasatchDeviceWrapper.dedupe                                             *)
(***************************************************************************)
\* lines 491-496: the key a control object is tracked under; a poison pill
\* is tracked under the key None
SettingKey(control_object) ==
    IF control_object = NoneMsg THEN "None" ELSE control_object.setting

SettingKeys == Settings \cup {"None"}

\* Python's "del keep[index]" with a 0-based index (index < len(keep))
DelAt(keep, index) ==
    [i \in 1..(Len(keep) - 1) |-> IF i <= index THEN keep[i] ELSE keep[i + 1]]

\* the state of dedupe before the first get_nowait: keep = [], indices = {}
\* (indices maps a key to its 0-based index, -1 when the key is absent)
DedupeInit == [keep |-> <<>>, indices |-> [k \in SettingKeys |-> -1]]

\* body of the loop for one control object that get_nowait returned
DedupeOne(st, control_object) ==
    LET setting == SettingKey(control_object)
        present == st.indices[setting] # -1
        \* lines 499-502: remove previous setting if duplicate
        keep1 == IF present THEN DelAt(st.keep, st.indices[setting]) ELSE st.keep
        \* line 505
        keep2 == Append(keep1, control_object)
    IN  [keep |-> keep2,
         \* line 506: only this key's index is written
         indices |-> [st.indices EXCEPT ![setting] = Len(keep2) - 1]]

RECURSIVE DedupeFrom(_, _)
DedupeFrom(st, q) ==
    IF q = <<>> THEN st ELSE DedupeFrom(DedupeOne(st, Head(q)), Tail(q))

\* dedupe(q) on a queue holding q: the list returned (the queue is left empty)
Dedupe(q) == DedupeFrom(DedupeInit, q).keep

(***************************************************************************)
(* Readings and settings                                                   *)
(***************************************************************************)
\* a Reading as far as the wrapper looks at it: reading.session_count,
\* reading.averaged, and whether reading.failure is not None
Reading(session_count, averaged, failure) ==
    [kind |-> "Reading", session_count |-> session_count,
     averaged |-> averaged, failure |-> failure]

\* the populated SpectrometerSettings of the WasatchDevice of worker w
SpectrometerSettings(w) == [kind |-> "SpectrometerSettings", device |-> w]

Workers == 1..MaxWorkers

VARIABLES
    \* SpecDedupe: the commands pending when dedupe is called, the queue as
    \* it is drained, the locals keep and indices, and dedupe's position
    dd_pending, dd_q, dd_keep, dd_indices, dd_pc,
    \* the three multiprocessing queues (self.command_queue,
    \* self.response_queue, self.spectrometer_settings_queue)
    command_queue, response_queue, spectrometer_settings_queue,
    \* MainProcess fields self.closing, self.poller (0 is None, else the
    \* worker the handle refers to) and self.settings
    closing, poller, settings,
    \* MainProcess position, the last value a wrapper method returned, and
    \* the number of disconnect and of change_setting calls so far
    cpc, ret, disconnects, changes,
    \* per worker: position in continuous_poll, the device's reading
    \* counter, and the change_setting calls made on the device by the
    \* iteration in progress
    wpc, session_count, applied,
    \* whether the devices average scans, so that a reading can be the
    \* final one of an averaged series
    averaging,
    \* the number of readings a device delivers before it only answers None
    \* or raises (bounds the model)
    device_readings,
    \* history of acquire_data: the last call (whether closing was set, the
    \* response queue as the call found it and as it left it), and the
    \* readings the calls have returned so far, oldest first
    acquired, returned,
    \* per worker, history: the messages it put on the settings queue, the
    \* number of readings and of poison pills it put on the response queue,
    \* whether it has taken a poison pill off the command queue
    settings_puts, readings_put, poison_puts, dequeued_poison

VARIABLES
    \* BalanceAcquisition: the object's fields mode, intensity, threshold,
    \* pixel and device (balancer) and overshoot_count; the device's
    \* settings.state; how the device answers acquire_data (backend)
    balancer, overshoot_count, state, backend,
    \* position in balance(), the adjust function of the pass in progress,
    \* the reading the pass acquired last, the last call made on
    \* device.hardware, the result of every balance_pass finished so far,
    \* what balance() returned, and whether the number of passes made
    \* through the loop of balance_pass so far is odd
    bpc, adjust_func, last_reading, hardware, passes, balanced, odd_iterations

VARIABLES
    \* EEPROM: the fields of the object (self), the pages given to parse(),
    \* the pages generate_write_buffers() built, and the exception the last
    \* call raised ("none" when it returned)
    eeprom, buffers, write_buffers, raised,
    \* the last EEPROM operation made, the fields of a fresh EEPROM that
    \* parsed write_buffers, the object passed to update_editable and the
    \* fields of self when update_editable was called
    epc, reparsed, new_eeprom, before,
    \* the count passed to coeffs_look_valid, what it returned, and what
    \* laser_power_mW_to_percent returned
    coeff_count, looked, percent,
    \* the bytes passed to printable and the string it returned
    printed

ddvars == <<dd_pending, dd_q, dd_keep, dd_indices, dd_pc>>

queues == <<command_queue, response_queue, spectrometer_settings_queue>>

mainvars == <<closing, poller, settings, cpc, ret, disconnects, changes>>

workervars == <<wpc, session_count, applied>>

history == <<settings_puts, readings_put, poison_puts, dequeued_poison>>

\* the devices as the model configures them
device == <<averaging, device_readings>>

acqhistory == <<acquired, returned>>

wrappervars == <<queues, mainvars, workervars, device, history, acqhistory>>

balvars == <<balancer, overshoot_count, state, backend, bpc, adjust_func, last_reading,
             hardware, passes, balanced, odd_iterations>>

eepvars == <<eeprom, buffers, write_buffers, raised, epc, reparsed, new_eeprom, before,
             coeff_count, looked, percent, printed>>

\* what no wrapper method and no worker changes
outside == <<balvars, ddvars, device, eepvars>>

vars == <<ddvars, wrappervars, balvars, eepvars>>

\* what the last wrapper method call came to: the method, the value it
\* returned ("True", "False", "None", "Reading", or the exception it raised),
\* the reading returned if any, and what the call met on its way (connect:
\* what the settings queue gave; disconnect: what join raised; acquire_data:
\* the mode)
Returned(op, value, item, got) == [op |-> op, value |-> value, item |-> item, got |-> got]

\* the wrapper just constructed (__init__), no worker forked
WrapperInit ==
    /\ command_queue = <<>>
    /\ response_queue = <<>>
    /\ spectrometer_settings_queue = <<>>
    /\ closing = FALSE
    /\ poller = 0
    /\ settings = NoneMsg
    /\ cpc = "idle"
    /\ ret = Returned("__init__", "None", NoneMsg, "none")
    /\ disconnects = 0
    /\ changes = 0
    /\ wpc = [w \in Workers |-> "unborn"]
    /\ session_count = [w \in Workers |-> 0]
    /\ applied = [w \in Workers |-> <<>>]
    /\ settings_puts = [w \in Workers |-> <<>>]
    /\ readings_put = [w \in Workers |-> 0]
    /\ poison_puts = [w \in Workers |-> 0]
    /\ dequeued_poison = [w \in Workers |-> FALSE]
    /\ acquired = [closing |-> FALSE, pending |-> <<>>, left |-> <<>>]
    /\ returned = <<>>

\* SpecDedupe's variables while the wrapper runs
DedupeIdle ==
    /\ dd_pending = <<>>
    /\ dd_q = <<>>
    /\ dd_keep = <<>>
    /\ dd_indices = DedupeInit.indices
    /\ dd_pc = "idle"

(***************************************************************************)
(* BalanceAcquisition: its constants and the values it works on            *)
(***************************************************************************)
INTEGRATION == 0
LASER == 1
LASER_THEN_INTEGRATION == 2

BalanceModes == {INTEGRATION, LASER, LASER_THEN_INTEGRATION}

\* __init__'s defaults for intensity and threshold
DefaultIntensity == 45000
DefaultThreshold == 2500

\* the range adjust_integration keeps the integration time in
MinIntegrationTimeMS == 10
MaxIntegrationTimeMS == 5000
\* the range adjust_laser keeps the laser power in
MinLaserPowerPerc == 1
MaxLaserPowerPerc == 100
\* the overshoot count a pass may reach without failing
MaxOvershoots == 5

\* self.pixel: None or an index into the spectrum (counted from 0)
Pixel(index) == [kind |-> "int", index |-> index]

\* reading.spectrum: None or a list of samples
Spectrum(samples) == [kind |-> "list", samples |-> samples]

\* what device.acquire_data() gives a balance pass: None, or a Reading whose
\* spectrum is None or a list
SpectrumReading(spectrum) == [kind |-> "Reading", spectrum |-> spectrum]

\* device.settings.state
State(integration_time_ms, laser_power) ==
    [integration_time_ms |-> integration_time_ms, laser_power |-> laser_power]

\* a call made on device.hardware
HardwareCall(call, value) == [call |-> call, value |-> value]

\* a BalanceAcquisition constructed with the defaults and never run
BalanceIdle ==
    /\ balancer = [mode |-> INTEGRATION, intensity |-> DefaultIntensity,
                   threshold |-> DefaultThreshold, pixel |-> NoneMsg, device |-> FALSE]
    /\ overshoot_count = 0
    /\ state = State(MinIntegrationTimeMS, MinLaserPowerPerc)
    /\ backend = [kind |-> "any"]
    /\ bpc = "idle"
    /\ adjust_func = "none"
    /\ last_reading = NoneMsg
    /\ hardware = HardwareCall("none", 0)
    /\ passes = <<>>
    /\ balanced = "none"
    /\ odd_iterations = FALSE

(***************************************************************************)
(* EEPROM: the values its fields hold and the object as constructed        *)
(***************************************************************************)
\* Python values: an int, a bool, a str (the sequence of its character
\* codes), a float that is exactly an IEEE-754 single (its four bytes,
\* least significant first: what struct packs and unpacks as "f"), and a
\* float that is not a single (its literal and the bytes of the nearest
\* single); None is NoneMsg
PyInt(i) == [kind |-> "int", v |-> i]

PyBool(b) == [kind |-> "bool", v |-> b]

PyStr(codes) == [kind |-> "str", v |-> codes]

PyFloat(bytes) == [kind |-> "float", v |-> bytes]

PyDouble(literal, bytes) == [kind |-> "double", v |-> literal, single |-> bytes]

PyList(items) == [kind |-> "list", v |-> items]

\* the floats the model names: 0.0, -0.0, 1.0, -1.0, 0.5, 100.0, a NaN, and 1.9
FloatZero == PyFloat(<<0, 0, 0, 0>>)

FloatMinusZero == PyFloat(<<0, 0, 0, 128>>)

FloatOne == PyFloat(<<0, 0, 128, 63>>)

FloatMinusOne == PyFloat(<<0, 0, 128, 191>>)

FloatHalf == PyFloat(<<0, 0, 0, 63>>)

FloatHundred == PyFloat(<<0, 0, 200, 66>>)

FloatNaN == PyFloat(<<0, 0, 192, 127>>)

Double19 == PyDouble("1.9", <<51, 51, 243, 63>>)

\* EEPROM(): the fields __init__ sets, but for buffers, write_buffers and
\* editable, which the model keeps apart
EEPROM ==
    [format |-> PyInt(0),
     model |-> NoneMsg,
     serial_number |-> NoneMsg,
     baud_rate |-> PyInt(0),
     has_cooling |-> PyBool(FALSE),
     has_battery |-> PyBool(FALSE),
     has_laser |-> PyBool(FALSE),
     excitation_nm |-> FloatZero,
     excitation_nm_float |-> FloatZero,
     slit_size_um |-> PyInt(0),
     startup_integration_time_ms |-> PyInt(10),
     startup_temp_degC |-> PyInt(15),
     startup_triggering_scheme |-> PyInt(0),
     detector_gain |-> Double19,
     detector_offset |-> PyInt(0),
     detector_gain_odd |-> Double19,
     detector_offset_odd |-> PyInt(0),
     wavelength_coeffs |-> PyList(<<>>),
     degC_to_dac_coeffs |-> PyList(<<>>),
     adc_to_degC_coeffs |-> PyList(<<>>),
     max_temp_degC |-> PyInt(20),
     min_temp_degC |-> PyInt(10),
     tec_r298 |-> PyInt(0),
     tec_beta |-> PyInt(0),
     calibration_date |-> NoneMsg,
     calibrated_by |-> NoneMsg,
     detector |-> NoneMsg,
     active_pixels_horizontal |-> PyInt(1024),
     active_pixels_vertical |-> PyInt(0),
     min_integration_time_ms |-> PyInt(10),
     max_integration_time_ms |-> PyInt(60000),
     actual_horizontal |-> PyInt(0),
     actual_vertical |-> PyInt(0),
     roi_horizontal_start |-> PyInt(0),
     roi_horizontal_end |-> PyInt(0),
     roi_vertical_region_1_start |-> PyInt(0),
     roi_vertical_region_1_end |-> PyInt(0),
     roi_vertical_region_2_start |-> PyInt(0),
     roi_vertical_region_2_end |-> PyInt(0),
     roi_vertical_region_3_start |-> PyInt(0),
     roi_vertical_region_3_end |-> PyInt(0),
     linearity_coeffs |-> PyList(<<>>),
     max_laser_power_mW |-> FloatZero,
     min_laser_power_mW |-> FloatZero,
     laser_power_coeffs |-> PyList(<<>>),
     user_data |-> NoneMsg,
     user_text |-> NoneMsg,
     bad_pixels |-> PyList(<<>>),
     product_configuration |-> NoneMsg]

\* self.editable
editable ==
    {"excitation_nm", "excitation_nm_float", "detector_gain", "detector_offset",
     "detector_gain_odd", "detector_offset_odd", "calibrated_by", "calibration_date",
     "user_text", "wavelength_coeffs", "linearity_coeffs", "max_laser_power_mW",
     "min_laser_power_mW", "laser_power_coeffs", "bad_pixels", "roi_horizontal_end",
     "roi_horizontal_start", "roi_vertical_region_1_end", "roi_vertical_region_1_start",
     "roi_vertical_region_2_end", "roi_vertical_region_2_start",
     "roi_vertical_region_3_end", "roi_vertical_region_3_start"}

\* an EEPROM constructed and never used
EepromIdle ==
    /\ eeprom = EEPROM
    /\ buffers = <<>>
    /\ write_buffers = <<>>
    /\ raised = "none"
    /\ epc = "constructed"
    /\ reparsed = NoneMsg
    /\ new_eeprom = NoneMsg
    /\ before = NoneMsg
    /\ coeff_count = NoneMsg
    /\ looked = "none"
    /\ percent = "none"
    /\ printed = NoneMsg

(***************************************************************************)
(* SpecDedupe                                                              *)
(***************************************************************************)
DedupeSpecInit ==
    /\ dd_pending \in SeqUpTo(CommandMsgs, MaxPending)
    /\ dd_q = dd_pending
    /\ dd_keep = DedupeInit.keep
    /\ dd_indices = DedupeInit.indices
    /\ dd_pc = "loop"
    /\ WrapperInit
    /\ averaging = FALSE
    /\ device_readings = MaxReadings
    /\ BalanceIdle
    /\ EepromIdle

\* one pass of the while loop in which get_nowait returns an element
DedupeGet ==
    /\ dd_pc = "loop"
    /\ dd_q # <<>>
    /\ LET st == DedupeOne([keep |-> dd_keep, indices |-> dd_indices], Head(dd_q))
       IN  /\ dd_keep' = st.keep
           /\ dd_indices' = st.indices
    /\ dd_q' = Tail(dd_q)
    /\ UNCHANGED <<dd_pending, dd_pc, wrappervars, balvars, eepvars>>

\* get_nowait raises Queue.Empty: break, return keep
DedupeReturn ==
    /\ dd_pc = "loop"
    /\ dd_q = <<>>
    /\ dd_pc' = "returned"
    /\ UNCHANGED <<dd_pending, dd_q, dd_keep, dd_indices, wrappervars, balvars,
                   eepvars>>

DedupeNext == DedupeGet \/ DedupeReturn

SpecDedupe == DedupeSpecInit /\ [][DedupeNext]_vars

(***************************************************************************)
(* Subprocess: WasatchDeviceWrapper.continuous_poll                        *)
(*                                                                         *)
(* Positions of a worker: "unborn" (not forked), "start" (forked, before   *)
(* the device is instantiated), "loop" (top of the while loop), "acquire"  *)
(* (commands applied, before wasatch_device.acquire_data), "exit" (after a *)
(* break, before the final put), "returned" (returned after a startup      *)
(* failure), "done" (sys.exit), "terminated" (killed by poller.terminate). *)
(* A worker hung in a backend call is a worker that takes no further step. *)
(***************************************************************************)
\* how instantiating and connecting the WasatchDevice can end
StartupOutcomes == {"instantiate_raises", "connect_raises", "connect_false", "connected"}

\* lines 408, 415, 419, 425: what the worker puts on the settings queue
StartupMessage(w, outcome) ==
    IF outcome = "connected" THEN SpectrometerSettings(w) ELSE NoneMsg

\* a startup failure that put the poison pill and went on into the loop
StartupThenFallsThrough(outcome) == "loop"

\* lines 408, 415, 419 return; line 425 goes on to the loop
StartupThen(outcome) ==
    IF outcome = "connected" THEN "loop" ELSE "returned"

WorkerStartup(w) ==
    /\ wpc[w] = "start"
    /\ \E outcome \in StartupOutcomes :
          /\ spectrometer_settings_queue' =
                Append(spectrometer_settings_queue, StartupMessage(w, outcome))
          /\ settings_puts' =
                [settings_puts EXCEPT ![w] = Append(@, StartupMessage(w, outcome))]
          /\ wpc' = [wpc EXCEPT ![w] = StartupThen(outcome)]
    /\ UNCHANGED <<outside, acqhistory, command_queue, response_queue, mainvars, session_count,
                   applied, readings_put, poison_puts, dequeued_poison>>

\* whether a list holds a poison pill
HasNone(q) == \E i \in 1..Len(q) : q[i] = NoneMsg

IsControlObject(m) == m # NoneMsg

\* the items of q ahead of its first poison pill
BeforePoison(q) ==
    SubSeq(q, 1, (CHOOSE i \in 1..Len(q) : q[i] = NoneMsg /\ \A j \in 1..(i - 1) : q[j] # NoneMsg) - 1)

\* the items of q behind its first poison pill
AfterPoison(q) == SubSeq(q, Len(BeforePoison(q)) + 2, Len(q))

\* a worker that breaks as soon as it meets the poison pill
AppliedUntilPoison(dedupped) ==
    IF HasNone(dedupped) THEN BeforePoison(dedupped) ELSE dedupped

\* lines 437-443: the records passed to wasatch_device.change_setting, in
\* the order of the calls; the loop goes through the whole list
Applied(dedupped) == SelectSeq(dedupped, IsControlObject)

\* lines 447-449: break when a poison pill was among the dedupped records
AfterCommands(poison_pill) == IF poison_pill THEN "exit" ELSE "acquire"

\* lines 430-449: dedupe the command queue and apply the records.  dedupe
\* returns when get_nowait finds the queue empty, so the drain takes effect
\* at that moment; wasatch_device.change_setting is taken to return.
WorkerCommands(w) ==
    /\ wpc[w] = "loop"
    /\ LET dedupped == Dedupe(command_queue)
       IN  /\ applied' = [applied EXCEPT ![w] = Applied(dedupped)]
           /\ wpc' = [wpc EXCEPT ![w] = AfterCommands(HasNone(dedupped))]
    /\ dequeued_poison' = [dequeued_poison EXCEPT ![w] = @ \/ HasNone(command_queue)]
    /\ command_queue' = <<>>
    /\ UNCHANGED <<outside, acqhistory, response_queue, spectrometer_settings_queue, mainvars,
                   session_count, settings_puts, readings_put, poison_puts>>

\* what wasatch_device.acquire_data can do: raise, return None, or return the
\* device's next Reading, with or without a failure, and flagged averaged
\* only by a device that averages scans
AcquireOutcomes(w) ==
    {[kind |-> "raises"], NoneMsg}
        \cup (IF session_count[w] < device_readings
              THEN {Reading(session_count[w] + 1, a, f) :
                        a \in {FALSE} \cup {averaging}, f \in BOOLEAN}
              ELSE {})

\* a worker that drops a reading carrying a failure
ForwardsUnlessFailure(reading) == ~reading.failure

\* lines 463-468: every reading that is not None is put on the response queue
Forwards(reading) == TRUE

\* lines 454-456, 458-462, 470-475: where the iteration goes after acquire
AfterAcquire(outcome) ==
    IF outcome.kind = "raises" THEN "exit"
    ELSE IF outcome = NoneMsg THEN "loop"
    ELSE IF outcome.failure THEN "exit"
    ELSE "loop"

WorkerAcquire(w) ==
    /\ wpc[w] = "acquire"
    /\ \E outcome \in AcquireOutcomes(w) :
          /\ wpc' = [wpc EXCEPT ![w] = AfterAcquire(outcome)]
          /\ IF outcome.kind = "Reading"
             THEN /\ session_count' = [session_count EXCEPT ![w] = outcome.session_count]
                  /\ IF Forwards(outcome)
                     THEN /\ response_queue' = Append(response_queue, outcome)
                          /\ readings_put' = [readings_put EXCEPT ![w] = @ + 1]
                     ELSE UNCHANGED <<response_queue, readings_put>>
             ELSE UNCHANGED <<session_count, response_queue, readings_put>>
    /\ applied' = [applied EXCEPT ![w] = <<>>]
    /\ UNCHANGED <<outside, acqhistory, command_queue, spectrometer_settings_queue, mainvars,
                   settings_puts, poison_puts, dequeued_poison>>

\* a worker that leaves without the final poison pill
NoExitMessages == <<>>

\* line 478: the messages put on the response queue after the loop
ExitMessages == <<NoneMsg>>

\* lines 477-481
WorkerExit(w) ==
    /\ wpc[w] = "exit"
    /\ response_queue' = response_queue \o ExitMessages
    /\ poison_puts' = [poison_puts EXCEPT ![w] = @ + Len(ExitMessages)]
    /\ wpc' = [wpc EXCEPT ![w] = "done"]
    /\ applied' = [applied EXCEPT ![w] = <<>>]
    /\ UNCHANGED <<outside, acqhistory, command_queue, spectrometer_settings_queue, mainvars,
                   session_count, settings_puts, readings_put, dequeued_poison>>

WorkerNext(w) == WorkerStartup(w) \/ WorkerCommands(w) \/ WorkerAcquire(w) \/ WorkerExit(w)

(***************************************************************************)
(* MainProcess: connect, disconnect, change_setting, acquire_data          *)
(*                                                                         *)
(* Positions: "idle" (no method running), "connect_wait" (blocked in       *)
(* spectrometer_settings_queue.get), "disconnect_join" (before             *)
(* poller.join), "disconnect_terminate" (before poller.terminate).         *)
(***************************************************************************)
\* the workers not forked yet
Unborn == {w \in DOMAIN wpc : wpc[w] = "unborn"}

\* a connect that forks again once the wrapper is closing
AlreadyPollingUnlessClosing(handle) == handle # 0 /\ ~closing

\* line 135: self.poller != None
AlreadyPolling(handle) == handle # 0

\* lines 135-137: already polling, return False
ConnectRefused ==
    /\ cpc = "idle"
    /\ AlreadyPolling(poller)
    /\ ret' = Returned("connect", "False", NoneMsg, "refused")
    /\ UNCHANGED <<outside, acqhistory, queues, closing, poller, settings, cpc, disconnects, changes,
                   workervars, history>>

\* lines 175-188: fork continuous_poll and keep the handle
ConnectFork ==
    /\ cpc = "idle"
    /\ ~AlreadyPolling(poller)
    /\ Unborn # {}
    /\ LET w == CHOOSE u \in Unborn : \A v \in Unborn : u <= v
       IN  /\ poller' = w
           /\ wpc' = [wpc EXCEPT ![w] = "start"]
    /\ cpc' = "connect_wait"
    /\ ret' = Returned("connect", "pending", NoneMsg, "none")
    /\ UNCHANGED <<outside, acqhistory, queues, closing, settings, disconnects, changes, session_count,
                   applied, history>>

\* a connect that takes whatever the settings queue gives for settings
AcceptsAnything(got) == TRUE

\* lines 197-198: a None off the settings queue is the worker's poison pill
IsPopulated(got) == got # NoneMsg

\* a failed connect that keeps the handle
KeepPoller(w) == w

\* line 224: releasing poller
ReleasePoller(w) == 0

\* lines 201-226: the except branch of connect
ConnectFailed(got) ==
    /\ settings' = NoneMsg
    /\ closing' = TRUE
    /\ command_queue' = Append(command_queue, NoneMsg)
    /\ poller' = ReleasePoller(poller)
    /\ cpc' = "idle"
    /\ ret' = Returned("connect", "False", NoneMsg, got)

\* line 195: the settings queue yields a message within the timeout
ConnectGet ==
    /\ cpc = "connect_wait"
    /\ spectrometer_settings_queue # <<>>
    /\ spectrometer_settings_queue' = Tail(spectrometer_settings_queue)
    /\ LET got == Head(spectrometer_settings_queue)
       IN  IF IsPopulated(got)
           THEN \* lines 195-199, 231-232
                /\ settings' = got
                /\ cpc' = "idle"
                /\ ret' = Returned("connect", "True", NoneMsg, "settings")
                /\ UNCHANGED <<closing, command_queue, poller>>
           ELSE ConnectFailed("poison")
    /\ UNCHANGED <<outside, acqhistory, response_queue, disconnects, changes, workervars, history>>

\* line 195: get(timeout=8) raises Queue.Empty, nothing arrived in time
ConnectTimeout ==
    /\ cpc = "connect_wait"
    /\ spectrometer_settings_queue = <<>>
    /\ ConnectFailed("timeout")
    /\ UNCHANGED <<outside, acqhistory, response_queue, spectrometer_settings_queue, disconnects, changes,
                   workervars, history>>

\* lines 234-237
DisconnectBegin ==
    /\ cpc = "idle"
    /\ disconnects < MaxDisconnects
    /\ disconnects' = disconnects + 1
    /\ closing' = TRUE
    /\ command_queue' = Append(command_queue, NoneMsg)
    /\ cpc' = "disconnect_join"
    /\ ret' = Returned("disconnect", "pending", NoneMsg, "none")
    /\ UNCHANGED <<outside, acqhistory, response_queue, spectrometer_settings_queue, poller,
                   settings, changes, workervars, history>>

\* what self.poller.join and self.poller.terminate raise: with self.poller
\* None the attribute lookup raises AttributeError
PollerCallException == IF poller = 0 THEN "AttributeError" ELSE "none"

\* a disconnect whose only handler around join is "except NameError"
JoinHandlesNameErrorOnly(exc) == exc = "NameError"

\* lines 241-244: except NameError, then except Exception
JoinHandles(exc) == TRUE

\* lines 251-252: except Exception
TerminateHandles(exc) == TRUE

\* lines 239-246: join(timeout=2) returns once the worker has exited or the
\* two seconds are over
DisconnectJoin ==
    /\ cpc = "disconnect_join"
    /\ LET exc == PollerCallException
       IN  IF exc = "none" \/ JoinHandles(exc)
           THEN /\ cpc' = "disconnect_terminate"
                /\ ret' = Returned("disconnect", "pending", NoneMsg, exc)
           ELSE /\ cpc' = "idle"
                /\ ret' = Returned("disconnect", exc, NoneMsg, exc)
    /\ UNCHANGED <<outside, acqhistory, queues, closing, poller, settings, disconnects, changes,
                   workervars, history>>

\* the positions of a live worker process
Alive == {"start", "loop", "acquire", "exit"}

\* lines 248-257: terminate kills the worker the handle refers to
DisconnectTerminate ==
    /\ cpc = "disconnect_terminate"
    /\ LET exc == PollerCallException
       IN  /\ IF exc = "none" /\ wpc[poller] \in Alive
              THEN wpc' = [wpc EXCEPT ![poller] = "terminated"]
              ELSE UNCHANGED wpc
           /\ IF exc = "none" \/ TerminateHandles(exc)
              THEN ret' = Returned("disconnect", "True", NoneMsg, ret.got)
              ELSE ret' = Returned("disconnect", exc, NoneMsg, ret.got)
    /\ cpc' = "idle"
    /\ UNCHANGED <<outside, acqhistory, queues, closing, poller, settings, disconnects, changes,
                   session_count, applied, history>>

\* lines 338-345
ChangeSetting(setting, value) ==
    /\ cpc = "idle"
    /\ changes < MaxCommands
    /\ changes' = changes + 1
    /\ command_queue' = Append(command_queue, ControlObject(setting, value))
    /\ UNCHANGED <<outside, acqhistory, response_queue, spectrometer_settings_queue, closing,
                   poller, settings, cpc, ret, disconnects, workervars, history>>

(***************************************************************************)
(* acquire_data and get_final_item                                         *)
(***************************************************************************)
ACQUISITION_MODE_KEEP_ALL == 0
ACQUISITION_MODE_LATEST == 1
ACQUISITION_MODE_KEEP_COMPLETE == 2
\* acquire_data called without a mode (mode=None)
ACQUISITION_MODE_DEFAULT == -1

AcquisitionModes ==
    {ACQUISITION_MODE_DEFAULT, ACQUISITION_MODE_KEEP_ALL, ACQUISITION_MODE_LATEST,
     ACQUISITION_MODE_KEEP_COMPLETE}

ModeName(mode) ==
    CASE mode = ACQUISITION_MODE_KEEP_ALL -> "KEEP_ALL"
      [] mode = ACQUISITION_MODE_LATEST -> "LATEST"
      [] mode = ACQUISITION_MODE_KEEP_COMPLETE -> "KEEP_COMPLETE"
      [] OTHER -> "None"

\* lines 311-326 from the state (reading, last_averaged) with q on the queue:
\* the locals when the loop breaks, and what is left on the queue
RECURSIVE GetFinalItemLoop(_, _, _, _)
GetFinalItemLoop(reading, last_averaged, q, keep_averaged) ==
    IF q = <<>>
    THEN \* Queue.Empty: break, reading keeps the last item got
         [reading |-> reading, last_averaged |-> last_averaged, queue |-> q]
    ELSE IF Head(q) = NoneMsg
    THEN \* lines 319-320: a poison pill is taken off and ends the loop
         [reading |-> NoneMsg, last_averaged |-> last_averaged, queue |-> Tail(q)]
    ELSE GetFinalItemLoop(Head(q),
                          IF keep_averaged /\ Head(q).averaged
                          THEN Head(q) ELSE last_averaged,
                          Tail(q), keep_averaged)

\* a get_final_item that returns the last reading it got when it meets a
\* poison pill
GetFinalItemKeepsReading(q, keep_averaged) ==
    IF HasNone(q)
    THEN LET end == GetFinalItemLoop(NoneMsg, NoneMsg, BeforePoison(q), keep_averaged)
         IN  [reading |-> IF end.last_averaged # NoneMsg THEN end.last_averaged
                          ELSE end.reading,
              queue |-> AfterPoison(q)]
    ELSE LET end == GetFinalItemLoop(NoneMsg, NoneMsg, q, keep_averaged)
         IN  [reading |-> IF end.last_averaged # NoneMsg THEN end.last_averaged
                          ELSE end.reading,
              queue |-> end.queue]

\* a get_final_item that never keeps the averaged reading
GetFinalItemNeverAveraged(q, keep_averaged) ==
    LET end == GetFinalItemLoop(NoneMsg, NoneMsg, q, FALSE)
    IN  [reading |-> end.reading, queue |-> end.queue]

\* a get_final_item that keeps the averaged reading whatever the caller asks
GetFinalItemAlwaysAveraged(q, keep_averaged) ==
    LET end == GetFinalItemLoop(NoneMsg, NoneMsg, q, TRUE)
    IN  [reading |-> IF end.last_averaged # NoneMsg THEN end.last_averaged
                     ELSE end.reading,
         queue |-> end.queue]

\* a get_final_item that leaves on the queue the readings it has looked at
GetFinalItemPeeks(q, keep_averaged) ==
    LET end == GetFinalItemLoop(NoneMsg, NoneMsg, q, keep_averaged)
    IN  [reading |-> IF end.last_averaged # NoneMsg THEN end.last_averaged
                     ELSE end.reading,
         queue |-> q]

\* get_final_item(keep_averaged) with q on the response queue: the reading
\* returned and what is left on the queue
GetFinalItem(q, keep_averaged) ==
    LET end == GetFinalItemLoop(NoneMsg, NoneMsg, q, keep_averaged)
    IN  [reading |-> \* lines 329-330
                     IF end.last_averaged # NoneMsg THEN end.last_averaged
                     ELSE end.reading,
         queue |-> end.queue]

\* the value a method returns for an item: a Reading or None
ValueOf(item) == IF item = NoneMsg THEN "None" ELSE "Reading"

\* an acquire_data that looks at the closing flag only when it drains
ClosingChecksDrainOnly(mode) == closing /\ mode # ACQUISITION_MODE_KEEP_ALL

\* line 269: if self.closing, in every mode
ClosingChecks(mode) == closing

\* lines 259-304
AcquireData(mode) ==
    /\ cpc = "idle"
    /\ IF ClosingChecks(mode)
       THEN \* lines 269-271
            /\ ret' = Returned("acquire_data", "None", NoneMsg, ModeName(mode))
            /\ UNCHANGED response_queue
       ELSE IF mode = ACQUISITION_MODE_DEFAULT \/ mode = ACQUISITION_MODE_KEEP_COMPLETE
       THEN \* lines 282-283
            LET r == GetFinalItem(response_queue, TRUE)
            IN  /\ ret' = Returned("acquire_data", ValueOf(r.reading), r.reading, ModeName(mode))
                /\ response_queue' = r.queue
       ELSE IF mode = ACQUISITION_MODE_LATEST
       THEN \* lines 285-286
            LET r == GetFinalItem(response_queue, FALSE)
            IN  /\ ret' = Returned("acquire_data", ValueOf(r.reading), r.reading, ModeName(mode))
                /\ response_queue' = r.queue
       ELSE \* lines 296-304
            IF response_queue = <<>>
            THEN /\ ret' = Returned("acquire_data", "None", NoneMsg, ModeName(mode))
                 /\ UNCHANGED response_queue
            ELSE /\ response_queue' = Tail(response_queue)
                 /\ IF Head(response_queue) = NoneMsg
                    THEN \* line 300 reads reading.session_count of None
                         ret' = Returned("acquire_data", "AttributeError", NoneMsg, ModeName(mode))
                    ELSE ret' = Returned("acquire_data", "Reading", Head(response_queue), ModeName(mode))
    /\ acquired' = [closing |-> closing, pending |-> response_queue, left |-> response_queue']
    /\ returned' = IF ret'.value = "Reading" THEN Append(returned, ret'.item) ELSE returned
    /\ UNCHANGED <<outside, command_queue, spectrometer_settings_queue,
                   closing, poller, settings, cpc, disconnects, changes, workervars, history>>

(***************************************************************************)
(* Spec: the wrapper and its workers                                       *)
(***************************************************************************)
\* a wrapper just constructed, for devices that do not average scans
Init ==
    /\ DedupeIdle
    /\ WrapperInit
    /\ averaging = FALSE
    /\ device_readings = MaxReadings
    /\ BalanceIdle
    /\ EepromIdle

MainNext ==
    \/ ConnectRefused
    \/ ConnectFork
    \/ ConnectGet
    \/ ConnectTimeout
    \/ DisconnectBegin
    \/ DisconnectJoin
    \/ DisconnectTerminate
    \* the k-th change_setting call carries the value k
    \/ \E setting \in Settings : ChangeSetting(setting, changes + 1)

Next == MainNext \/ \E w \in Workers : WorkerNext(w)

Spec == Init /\ [][Next]_vars

\* Spec with workers that go on running: every backend call returns and
\* the operating system schedules the worker process
SpecFair == Spec /\ \A w \in Workers : WF_vars(WorkerNext(w))

(***************************************************************************)
(* SpecAcquire: acquire_data in every mode, and disconnect, on a wrapper   *)
(* whose connect has succeeded, interleaved with the worker                *)
(***************************************************************************)
\* the wrapper after connect returned True: worker 1 has posted its
\* settings and entered the loop, its device averages scans
AcquireInit ==
    /\ DedupeIdle
    /\ BalanceIdle
    /\ EepromIdle
    /\ averaging = TRUE
    /\ device_readings = MaxAcquired
    /\ command_queue = <<>>
    /\ response_queue = <<>>
    /\ spectrometer_settings_queue = <<>>
    /\ closing = FALSE
    /\ poller = 1
    /\ settings = SpectrometerSettings(1)
    /\ cpc = "idle"
    /\ ret = Returned("connect", "True", NoneMsg, "settings")
    /\ disconnects = 0
    /\ changes = 0
    /\ wpc = [w \in Workers |-> IF w = 1 THEN "loop" ELSE "unborn"]
    /\ session_count = [w \in Workers |-> 0]
    /\ applied = [w \in Workers |-> <<>>]
    /\ settings_puts = [w \in Workers |-> IF w = 1 THEN <<SpectrometerSettings(1)>> ELSE <<>>]
    /\ readings_put = [w \in Workers |-> 0]
    /\ poison_puts = [w \in Workers |-> 0]
    /\ dequeued_poison = [w \in Workers |-> FALSE]
    /\ acquired = [closing |-> FALSE, pending |-> <<>>, left |-> <<>>]
    /\ returned = <<>>

AcquireNext ==
    \/ \E mode \in AcquisitionModes : AcquireData(mode)
    \/ DisconnectBegin
    \/ DisconnectJoin
    \/ DisconnectTerminate
    \/ \E w \in Workers : WorkerCommands(w) \/ WorkerAcquire(w) \/ WorkerExit(w)

SpecAcquire == AcquireInit /\ [][AcquireNext]_vars

(***************************************************************************)
(* SpecBatch: a worker at the top of its loop finds any bounded batch of   *)
(* commands and poison pills on the command queue                          *)
(***************************************************************************)
\* as AcquireInit, with the batch on the command queue; dd_pending keeps
\* the batch as the worker's first dedupe finds it
BatchInit ==
    /\ dd_pending \in SeqUpTo(CommandMsgs, MaxPending)
    /\ dd_q = <<>>
    /\ dd_keep = <<>>
    /\ dd_indices = DedupeInit.indices
    /\ dd_pc = "idle"
    /\ BalanceIdle
    /\ EepromIdle
    /\ averaging = FALSE
    /\ device_readings = MaxReadings
    /\ command_queue = dd_pending
    /\ response_queue = <<>>
    /\ spectrometer_settings_queue = <<>>
    \* a poison pill is put by disconnect, which sets the flag first
    /\ closing = HasNone(dd_pending)
    /\ poller = 1
    /\ settings = SpectrometerSettings(1)
    /\ cpc = "idle"
    /\ ret = Returned("connect", "True", NoneMsg, "settings")
    /\ disconnects = 0
    /\ changes = 0
    /\ wpc = [w \in Workers |-> IF w = 1 THEN "loop" ELSE "unborn"]
    /\ session_count = [w \in Workers |-> 0]
    /\ applied = [w \in Workers |-> <<>>]
    /\ settings_puts = [w \in Workers |-> IF w = 1 THEN <<SpectrometerSettings(1)>> ELSE <<>>]
    /\ readings_put = [w \in Workers |-> 0]
    /\ poison_puts = [w \in Workers |-> 0]
    /\ dequeued_poison = [w \in Workers |-> FALSE]
    /\ acquired = [closing |-> FALSE, pending |-> <<>>, left |-> <<>>]
    /\ returned = <<>>

BatchNext == \E w \in Workers : WorkerCommands(w) \/ WorkerAcquire(w) \/ WorkerExit(w)

SpecBatch == BatchInit /\ [][BatchNext]_vars

(***************************************************************************)
(* SpecReconnect: connect, disconnect and acquire_data called in any order *)
(* on a wrapper that can fork more than one worker                         *)
(***************************************************************************)
\* most worker processes forked in SpecReconnect
MaxForks == 2

\* the wrapper just constructed (__init__), no worker forked
ReconnectInit ==
    /\ DedupeIdle
    /\ BalanceIdle
    /\ EepromIdle
    /\ averaging = FALSE
    \* the devices have no reading to give: acquire_data returns None or
    \* raises, and the response queue holds poison pills only
    /\ device_readings = 0
    /\ command_queue = <<>>
    /\ response_queue = <<>>
    /\ spectrometer_settings_queue = <<>>
    /\ closing = FALSE
    /\ poller = 0
    /\ settings = NoneMsg
    /\ cpc = "idle"
    /\ ret = Returned("__init__", "None", NoneMsg, "none")
    /\ disconnects = 0
    /\ changes = 0
    /\ wpc = [w \in 1..MaxForks |-> "unborn"]
    /\ session_count = [w \in 1..MaxForks |-> 0]
    /\ applied = [w \in 1..MaxForks |-> <<>>]
    /\ settings_puts = [w \in 1..MaxForks |-> <<>>]
    /\ readings_put = [w \in 1..MaxForks |-> 0]
    /\ poison_puts = [w \in 1..MaxForks |-> 0]
    /\ dequeued_poison = [w \in 1..MaxForks |-> FALSE]
    /\ acquired = [closing |-> FALSE, pending |-> <<>>, left |-> <<>>]
    /\ returned = <<>>

ReconnectNext ==
    \/ ConnectRefused
    \/ ConnectFork
    \/ ConnectGet
    \/ ConnectTimeout
    \/ DisconnectBegin
    \/ DisconnectJoin
    \/ DisconnectTerminate
    \/ \E mode \in AcquisitionModes : AcquireData(mode)
    \/ \E w \in DOMAIN wpc : WorkerNext(w)

SpecReconnect == ReconnectInit /\ [][ReconnectNext]_vars

(***************************************************************************)
(* BalanceAcquisition: balance, balance_pass, adjust_integration and       *)
(* adjust_laser                                                            *)
(***************************************************************************)
Max2(a, b) == IF a >= b THEN a ELSE b
Min2(a, b) == IF a <= b THEN a ELSE b
Abs(x) == IF x < 0 THEN -x ELSE x

\* max(spectrum) of a list that is not empty
RECURSIVE MaxOf(_)
MaxOf(samples) ==
    IF Len(samples) = 1 THEN samples[1]
    ELSE Max2(samples[1], MaxOf(Tail(samples)))

\* line 49
PeakOf(spectrum, pixel) ==
    IF pixel # NoneMsg THEN spectrum.samples[pixel.index + 1]
    ELSE MaxOf(spectrum.samples)

\* line 42
FailedToGetSpectrum(reading) ==
    \/ reading = NoneMsg
    \/ reading.spectrum = NoneMsg

\* a balance test that accepts every peak above the target
BalancedFromBelow(delta, threshold) == delta <= threshold

\* line 56
Balanced(delta, threshold) == Abs(delta) <= threshold

\* an adjustment that is not clamped
NoClamp(lo, hi, x) == x

\* lines 75 and 92: max(lo, min(hi, n))
Clamp(lo, hi, x) == Max2(lo, Min2(hi, x))

\* an overshoot limit that trips one overshoot early
TooManyOvershootsEarly(count) == count >= MaxOvershoots

\* lines 69 and 86
TooManyOvershoots(count) == count > MaxOvershoots

\* what an adjust function comes to: the value it returns (or the exception
\* it raises), overshoot_count, and the value it sets on the hardware if
\* it gets that far
Adjusted(returns, count, sets, value) ==
    [returns |-> returns, overshoot_count |-> count, sets |-> sets, value |-> value]

\* the body the two adjust functions share, for a quantity kept in lo..hi
\* (int() of a quotient of non-negative numbers is the floor)
Adjust(quantity, lo, hi, intensity, count, peak) ==
    IF peak > intensity
    THEN \* lines 67-71 and 84-88
         IF TooManyOvershoots(count + 1)
         THEN Adjusted("False", count + 1, FALSE, 0)
         ELSE Adjusted("True", count + 1, TRUE, Clamp(lo, hi, quantity \div 2))
    ELSE \* lines 73 and 90
         IF peak = 0
         THEN Adjusted("ZeroDivisionError", count, FALSE, 0)
         ELSE Adjusted("True", count, TRUE, Clamp(lo, hi, (quantity * intensity) \div peak))

\* lines 64-79
AdjustIntegration(self, st, count, peak) ==
    Adjust(st.integration_time_ms, MinIntegrationTimeMS, MaxIntegrationTimeMS,
           self.intensity, count, peak)

\* lines 81-96
AdjustLaser(self, st, count, peak) ==
    Adjust(st.laser_power, MinLaserPowerPerc, MaxLaserPowerPerc,
           self.intensity, count, peak)

\* device.hardware.set_integration_time_ms(value) and
\* set_laser_power_perc(value): settings.state follows the hardware
HardwareSet(st, call, value) ==
    IF call = "set_integration_time_ms"
    THEN [st EXCEPT !.integration_time_ms = value]
    ELSE [st EXCEPT !.laser_power = value]

\* what one pass of the loop of balance_pass comes to: "continue", or the
\* value the pass returns (or the exception it raises); settings.state,
\* overshoot_count and the last call on the hardware after it
Iterated(result, st, count, call) ==
    [result |-> result, state |-> st, overshoot_count |-> count, hardware |-> call]

\* a pass that acquires again when it got no spectrum
FailedSpectrumRetries(st, count, call) == Iterated("continue", st, count, call)

\* lines 42-44
FailedSpectrum(st, count, call) == Iterated("False", st, count, call)

\* lines 41-62 with reading acquired
Iteration(self, func, st, count, call, reading) ==
    IF FailedToGetSpectrum(reading)
    THEN FailedSpectrum(st, count, call)
    ELSE LET peak == PeakOf(reading.spectrum, self.pixel)
             delta == self.intensity - peak
             adjusted == IF func = "adjust_integration"
                         THEN AdjustIntegration(self, st, count, peak)
                         ELSE AdjustLaser(self, st, count, peak)
             setter == IF func = "adjust_integration"
                       THEN "set_integration_time_ms" ELSE "set_laser_power_perc"
         IN  IF Balanced(delta, self.threshold)
             THEN Iterated("True", st, count, call)
             ELSE IF adjusted.sets
             THEN Iterated("continue", HardwareSet(st, setter, adjusted.value),
                           adjusted.overshoot_count, HardwareCall(setter, adjusted.value))
             ELSE Iterated(adjusted.returns, st, adjusted.overshoot_count, call)

\* the spectra of the model: MaxSamples samples, all at the baseline but one
Samples == {0, 22500, 44000, 60000}
Baseline == 22500
MaxSamples == 2
Spectra ==
    {Spectrum([i \in 1..MaxSamples |-> IF i = j THEN sample ELSE Baseline]) :
        j \in 1..MaxSamples, sample \in Samples}

\* the readings device.acquire_data() can give with the hardware in st: any
\* at all, or the one whose peak is k times the integration time
BackendReadings(st) ==
    IF backend.kind = "linear"
    THEN {SpectrumReading(Spectrum([i \in 1..MaxSamples |->
              IF i = 1 THEN backend.k * st.integration_time_ms ELSE 0]))}
    ELSE {NoneMsg, SpectrumReading(NoneMsg)}
            \cup {SpectrumReading(spectrum) : spectrum \in Spectra}

\* the adjust function of the first pass of balance() (lines 23-30)
FirstPass(self) ==
    IF self.mode = INTEGRATION THEN "adjust_integration" ELSE "adjust_laser"

\* a balance() that runs the integration pass whatever the laser pass returned
SecondPassWhatever(self, func, result) ==
    /\ self.mode \notin {INTEGRATION, LASER}
    /\ func = "adjust_laser"

\* whether balance() runs another pass after func's pass returned result
\* (lines 30-32)
SecondPass(self, func, result) ==
    /\ self.mode \notin {INTEGRATION, LASER}
    /\ func = "adjust_laser"
    /\ result = "True"

\* what balance() returns when the pass of func ended with result and no
\* pass follows (lines 24, 26, 30-32)
BalanceReturns(self, func, result) ==
    IF self.mode \notin {INTEGRATION, LASER} /\ func = "adjust_laser" /\ result = "None"
    THEN "False"
    ELSE result

\* balance() up to the loop of its first pass (lines 22-39)
BalanceCall ==
    /\ bpc = "idle"
    /\ adjust_func' = FirstPass(balancer)
    /\ IF ~balancer.device
       THEN \* lines 35-37: balance_pass returns None
            /\ passes' = Append(passes, [adjust_func |-> adjust_func', result |-> "None"])
            /\ balanced' = BalanceReturns(balancer, adjust_func', "None")
            /\ bpc' = "done"
            /\ UNCHANGED overshoot_count
       ELSE /\ overshoot_count' = 0
            /\ bpc' = "pass"
            /\ UNCHANGED <<passes, balanced>>
    /\ UNCHANGED <<balancer, state, backend, last_reading, hardware, odd_iterations, ddvars,
                   wrappervars, eepvars>>

\* one pass of the loop of balance_pass, and what balance() does when the
\* pass returns
BalanceIterate ==
    /\ bpc = "pass"
    /\ \E reading \in BackendReadings(state) :
          LET it == Iteration(balancer, adjust_func, state, overshoot_count, hardware, reading)
          IN  /\ last_reading' = reading
              /\ state' = it.state
              /\ hardware' = it.hardware
              /\ IF it.result = "continue"
                 THEN /\ overshoot_count' = it.overshoot_count
                      /\ UNCHANGED <<bpc, adjust_func, passes, balanced>>
                 ELSE /\ passes' = Append(passes, [adjust_func |-> adjust_func,
                                                    result |-> it.result])
                      /\ IF SecondPass(balancer, adjust_func, it.result)
                         THEN \* line 32, then line 39
                              /\ adjust_func' = "adjust_integration"
                              /\ overshoot_count' = 0
                              /\ UNCHANGED <<bpc, balanced>>
                         ELSE /\ balanced' = BalanceReturns(balancer, adjust_func, it.result)
                              /\ bpc' = "done"
                              /\ overshoot_count' = it.overshoot_count
                              /\ UNCHANGED adjust_func
    /\ odd_iterations' = ~odd_iterations
    /\ UNCHANGED <<balancer, backend, ddvars, wrappervars, eepvars>>

BalanceNext == BalanceCall \/ BalanceIterate

(***************************************************************************)
(* SpecBalance: balance() in every mode on a device that answers with any  *)
(* reading                                                                 *)
(***************************************************************************)
\* targets and thresholds a balancer is constructed with
Intensities == {DefaultIntensity, 20000}
Thresholds == {DefaultThreshold}
Pixels == {NoneMsg} \cup {Pixel(index) : index \in 0..(MaxSamples - 1)}

\* the settings the device is in when balance() is called
IntegrationTimes == {100, 20000}
LaserPowers == {60, 400}

\* the variables of the other specifications while the balancer runs
WrapperIdle ==
    /\ DedupeIdle
    /\ WrapperInit
    /\ averaging = FALSE
    /\ device_readings = MaxReadings

BalanceInit ==
    /\ WrapperIdle
    /\ EepromIdle
    /\ balancer \in [mode : BalanceModes, intensity : Intensities, threshold : Thresholds,
                      pixel : Pixels, device : BOOLEAN]
    /\ overshoot_count = 0
    /\ state \in {State(t, p) : t \in IntegrationTimes, p \in LaserPowers}
    /\ backend = [kind |-> "any"]
    /\ bpc = "idle"
    /\ adjust_func = "none"
    /\ last_reading = NoneMsg
    /\ hardware = HardwareCall("none", 0)
    /\ passes = <<>>
    /\ balanced = "none"
    /\ odd_iterations = FALSE

SpecBalance == BalanceInit /\ [][BalanceNext]_vars

(***************************************************************************)
(* SpecBalanceLinear: an integration balance on a device whose peak is k   *)
(* times the integration time.  balance() runs in one thread and every     *)
(* acquire_data answers, so the loop always takes its next pass.           *)
(***************************************************************************)
\* the factors k of the model, and the targets, thresholds and integration
\* times balance() is called with
Gains == {1, 9, 4000}
LinearIntensities == Intensities \cup {47500}
LinearThresholds == {DefaultThreshold, 500}
LinearIntegrationTimes == IntegrationTimes \cup {MinIntegrationTimeMS}

BalanceLinearInit ==
    /\ WrapperIdle
    /\ EepromIdle
    /\ balancer \in [mode : {INTEGRATION}, intensity : LinearIntensities,
                      threshold : LinearThresholds, pixel : {NoneMsg, Pixel(0)},
                      device : {TRUE}]
    /\ overshoot_count = 0
    /\ state \in {State(t, p) : t \in LinearIntegrationTimes, p \in LaserPowers}
    /\ backend \in {[kind |-> "linear", k |-> k] : k \in Gains}
    /\ bpc = "idle"
    /\ adjust_func = "none"
    /\ last_reading = NoneMsg
    /\ hardware = HardwareCall("none", 0)
    /\ passes = <<>>
    /\ balanced = "none"
    /\ odd_iterations = FALSE

SpecBalanceLinear == BalanceLinearInit /\ [][BalanceNext]_vars /\ WF_vars(BalanceNext)

(***************************************************************************)
(* Claims about dedupe (checked under SpecDedupe)                          *)
(***************************************************************************)
\* positions of q whose control object is tracked under key k
PositionsOf(q, k) == {i \in 1..Len(q) : SettingKey(q[i]) = k}

\* the keys that occur in q
KeysOf(q) == {SettingKey(q[i]) : i \in 1..Len(q)}

\* the last control object of q tracked under key k (k occurs in q)
LastFor(q, k) == q[CHOOSE i \in PositionsOf(q, k) : \A j \in PositionsOf(q, k) : j <= i]

\* the position at which key k first occurs in q (k occurs in q)
FirstPos(q, k) == CHOOSE i \in PositionsOf(q, k) : \A j \in PositionsOf(q, k) : i <= j

\* C1: for every pending sequence, dedupe leaves the queue empty and returns
\* exactly one entry per distinct setting name that was pending, carrying
\* the value of the last pending command of that name
C1_OneEntryPerNameLatestValue ==
    dd_pc = "returned" =>
        /\ dd_q = <<>>
        /\ KeysOf(dd_keep) = KeysOf(dd_pending)
        /\ \A k \in KeysOf(dd_pending) :
              /\ Cardinality(PositionsOf(dd_keep, k)) = 1
              /\ \A i \in PositionsOf(dd_keep, k) : dd_keep[i] = LastFor(dd_pending, k)

\* C2: the returned list orders the distinct setting names by their first
\* occurrence in the pending sequence
C2_FirstSeenOrder ==
    dd_pc = "returned" =>
        \A i, j \in 1..Len(dd_keep) :
            i < j => FirstPos(dd_pending, SettingKey(dd_keep[i]))
                        < FirstPos(dd_pending, SettingKey(dd_keep[j]))

\* C3: if a poison pill was pending, the returned list holds exactly one
\* poison pill
C3_ExactlyOnePoison ==
    (dd_pc = "returned" /\ "None" \in KeysOf(dd_pending)) =>
        Cardinality(PositionsOf(dd_keep, "None")) = 1

(***************************************************************************)
(* Claims about the worker loop and the wrapper (checked under Spec)       *)
(***************************************************************************)
RECURSIVE SumOver(_, _)
SumOver(f, S) ==
    IF S = {} THEN 0
    ELSE LET x == CHOOSE y \in S : TRUE IN f[x] + SumOver(f, S \ {x})

IsNone(m) == m = NoneMsg

\* the positions of a worker that has left the loop through a break
LeftLoop == {"exit", "done"}

\* C4: an iteration whose drained batch held a poison pill exits the loop
\* without acquiring: a worker that has taken a poison pill off the command
\* queue is never again at the top of the loop or about to acquire
C4_PoisonEndsLoop ==
    \A w \in Workers :
        dequeued_poison[w] => wpc[w] \in LeftLoop \cup {"terminated"}

\* C5: a worker that leaves the loop puts exactly one poison pill on the
\* response queue (none before it leaves, one once it is done) and puts
\* nothing on the response queue after it
C5_OnePoisonThenNothing ==
    /\ [](/\ \A w \in Workers :
                /\ wpc[w] = "done" => poison_puts[w] = 1
                /\ wpc[w] \in {"unborn", "start", "loop", "acquire", "exit", "returned"}
                      => poison_puts[w] = 0
                /\ poison_puts[w] <= 1
                \* the final put never blocks: the queue is unbounded
                /\ wpc[w] = "exit" => ENABLED WorkerExit(w)
          /\ Len(SelectSeq(response_queue, IsNone)) = SumOver(poison_puts, Workers)
          /\ Len(response_queue) =
                SumOver(poison_puts, Workers) + SumOver(readings_put, Workers))
    /\ [][\A w \in Workers :
             poison_puts[w] >= 1 =>
                /\ poison_puts'[w] = poison_puts[w]
                /\ readings_put'[w] = readings_put[w]]_vars

\* C5 witness: a worker that left the loop on an acquisition failure, not a
\* poison pill, is done and its poison pill is the last response
C5_Witness ==
    \E w \in Workers :
        /\ wpc[w] = "done"
        /\ ~dequeued_poison[w]
        /\ poison_puts[w] = 1
        /\ response_queue # <<>>
        /\ response_queue[Len(response_queue)] = NoneMsg

\* C6 as claimed: no reading carrying a failure is ever on the response queue
C6_FailureNeverForwarded ==
    \A i \in 1..Len(response_queue) :
        response_queue[i].kind = "Reading" => ~response_queue[i].failure

\* C6 as amended: every reading the device returns is put on the response
\* queue, a reading carrying a failure included, and the worker leaves the
\* loop exactly when the reading it just forwarded carries a failure
C6_FailureForwardedThenExit ==
    [][\A w \in Workers :
          session_count'[w] # session_count[w] =>
             /\ Len(response_queue') = Len(response_queue) + 1
             /\ LET reading == response_queue'[Len(response_queue')]
                IN  /\ reading.kind = "Reading"
                    /\ reading.session_count = session_count'[w]
                    /\ wpc'[w] = IF reading.failure THEN "exit" ELSE "loop"]_vars

\* C6 witness: the last response is a reading carrying a failure and its
\* worker has left the loop
C6_Witness ==
    \E w \in Workers :
        /\ wpc[w] = "exit"
        /\ response_queue # <<>>
        /\ response_queue[Len(response_queue)].kind = "Reading"
        /\ response_queue[Len(response_queue)].failure

\* C7: a worker puts one message on the settings queue in its lifetime, the
\* populated settings after a successful connect or a poison pill after a
\* failed startup, before it takes any command or puts any response; after a
\* failed startup it takes no command and puts no response
C7_OneSettingsMessageFirst ==
    /\ \A w \in Workers :
          /\ Len(settings_puts[w]) <= 1
          /\ wpc[w] \in {"unborn", "start"} => settings_puts[w] = <<>>
          /\ wpc[w] \in {"loop", "acquire", "exit", "done"}
                => settings_puts[w] = <<SpectrometerSettings(w)>>
          /\ wpc[w] = "returned" => settings_puts[w] = <<NoneMsg>>
          /\ settings_puts[w] # <<SpectrometerSettings(w)>>
                => /\ readings_put[w] = 0
                   /\ poison_puts[w] = 0
                   /\ session_count[w] = 0
                   /\ applied[w] = <<>>
                   /\ ~dequeued_poison[w]
    /\ Len(spectrometer_settings_queue) <= MaxWorkers
    /\ \A i \in 1..Len(spectrometer_settings_queue) :
          \E w \in Workers : settings_puts[w] = <<spectrometer_settings_queue[i]>>

\* C7 witness: a worker whose startup failed has returned, its poison pill
\* still on the settings queue, with a command pending that it never takes
C7_Witness ==
    \E w \in Workers :
        /\ wpc[w] = "returned"
        /\ settings_puts[w] = <<NoneMsg>>
        /\ command_queue # <<>>

\* C8 as claimed: a connect that returned True received populated settings
\* and left them stored, the closing flag clear and the handle retained; a
\* connect that returned False received none
C8_SuccessIffSettingsClosingClear ==
    ret.op = "connect" =>
        /\ ret.value = "True" <=> ret.got = "settings"
        /\ ret.value = "True" =>
              /\ settings.kind = "SpectrometerSettings"
              /\ poller # 0
              /\ closing = FALSE

\* C8 as amended: the same, except that a successful connect leaves the
\* closing flag as it found it
C8_SuccessIffSettingsClosingKept ==
    /\ [](ret.op = "connect" =>
             /\ ret.value \in {"True", "False", "pending"}
             /\ ret.value = "True" <=> ret.got = "settings"
             /\ ret.value = "True" =>
                   /\ settings.kind = "SpectrometerSettings"
                   /\ poller # 0)
    /\ [][(cpc = "connect_wait" /\ cpc' = "idle") =>
             /\ ret'.value = "True" <=>
                   /\ spectrometer_settings_queue # <<>>
                   /\ Head(spectrometer_settings_queue).kind = "SpectrometerSettings"
             /\ ret'.value = "True" =>
                   /\ settings' = Head(spectrometer_settings_queue)
                   /\ poller' = poller
                   /\ closing' = closing]_vars

\* C8 witness: connect has returned True on a wrapper whose closing flag was
\* already set
C8_Witness ==
    /\ ret.op = "connect"
    /\ ret.value = "True"
    /\ settings.kind = "SpectrometerSettings"
    /\ closing

\* C9: a connect that met a poison pill on the settings queue, or nothing
\* within the timeout, sets the closing flag, empties the stored settings,
\* appends exactly one poison pill to the command queue, releases the handle
\* and returns False
C9_FailedConnectCleansUp ==
    [][(/\ cpc = "connect_wait"
        /\ cpc' = "idle"
        /\ \/ spectrometer_settings_queue = <<>>
           \/ Head(spectrometer_settings_queue) = NoneMsg) =>
          /\ closing'
          /\ settings' = NoneMsg
          /\ command_queue' = Append(command_queue, NoneMsg)
          /\ poller' = 0
          /\ ret'.op = "connect"
          /\ ret'.value = "False"]_vars

\* C9 witness: connect has returned False after a worker never posted
C9_Witness ==
    /\ ret.op = "connect"
    /\ ret.got = "timeout"
    /\ cpc = "idle"
    /\ \E w \in Workers : wpc[w] = "start"

\* C10: disconnect, called in any state, sets the closing flag and appends a
\* poison pill to the command queue, is never stopped by a failing join or
\* terminate, and returns True
C10_DisconnectCompletes ==
    /\ [](/\ ret.op = "disconnect" => (ret.value \in {"pending", "True"} /\ closing)
          /\ cpc = "disconnect_join" => ENABLED DisconnectJoin
          /\ cpc = "disconnect_terminate" => ENABLED DisconnectTerminate)
    /\ [][(cpc = "idle" /\ cpc' = "disconnect_join") =>
             /\ closing'
             /\ command_queue' = Append(command_queue, NoneMsg)]_vars
    /\ [][(cpc = "disconnect_terminate" /\ cpc' # cpc) =>
             /\ cpc' = "idle"
             /\ ret'.op = "disconnect"
             /\ ret'.value = "True"]_vars

\* C10 witness: disconnect has returned True although join raised (no
\* handle to join) while a worker left behind by a failed connect lives on
C10_Witness ==
    /\ ret.op = "disconnect"
    /\ ret.value = "True"
    /\ ret.got = "AttributeError"
    /\ \E w \in Workers : wpc[w] \in Alive

\* C11: once disconnect has returned, no worker forked by this wrapper is
\* still running, whatever the state disconnect was called in (a failed
\* connect included)
C11_NoWorkerAfterDisconnect ==
    (cpc = "idle" /\ ret.op = "disconnect" /\ ret.value = "True") =>
        \A w \in Workers : wpc[w] \notin Alive

(***************************************************************************)
(* Claims about acquire_data (checked under SpecAcquire)                   *)
(***************************************************************************)
IsReading(m) == m.kind = "Reading"

\* the readings among the items of q, in order
ReadingsOf(q) == SelectSeq(q, IsReading)

\* the readings of q flagged averaged, in order
AveragedOf(q) == SelectSeq(q, LAMBDA m : IsReading(m) /\ m.averaged)

\* the last item of q, None when there is none
LastOf(q) == IF q = <<>> THEN NoneMsg ELSE q[Len(q)]

\* the last acquire_data call was made in one of modes with closing clear
AcquiredIn(modes) ==
    /\ ret.op = "acquire_data"
    /\ ret.got \in modes
    /\ ~acquired.closing

\* what KEEP_COMPLETE is to return from the pending items q
CompleteOf(q) ==
    IF AveragedOf(q) # <<>> THEN LastOf(AveragedOf(q)) ELSE LastOf(ReadingsOf(q))

\* C12 as stated: with closing clear, acquire_data in KEEP_COMPLETE mode (or
\* with no mode) empties the response queue and returns the last averaged
\* reading it held if there is one, and otherwise the last reading it held
C12_KeepCompleteWhateverPending ==
    AcquiredIn({"KEEP_COMPLETE", "None"}) =>
        /\ acquired.left = <<>>
        /\ ret.item = CompleteOf(acquired.pending)

\* C12 amended: the same when only readings are pending (no poison pill);
\* with nothing pending the call returns None
C12_KeepCompleteOnlyReadings ==
    (AcquiredIn({"KEEP_COMPLETE", "None"}) /\ ~HasNone(acquired.pending)) =>
        /\ acquired.left = <<>>
        /\ ret.item = CompleteOf(acquired.pending)
        /\ ret.value = ValueOf(ret.item)

\* C12 witness: KEEP_COMPLETE has returned an averaged reading that was
\* followed on the queue by a newer partial one
C12_Witness ==
    /\ AcquiredIn({"KEEP_COMPLETE"})
    /\ ~HasNone(acquired.pending)
    /\ Len(acquired.pending) >= 2
    /\ ret.value = "Reading"
    /\ ret.item.averaged
    /\ ~LastOf(acquired.pending).averaged

\* C13: with closing clear, acquire_data in KEEP_ALL mode takes exactly the
\* oldest pending item off the response queue and returns it, the others
\* staying in place and in order; with nothing pending it returns None and
\* leaves the queue as it was
C13_KeepAllReturnsOldest ==
    AcquiredIn({"KEEP_ALL"}) =>
        IF acquired.pending = <<>>
        THEN /\ acquired.left = <<>>
             /\ ret.value = "None"
        ELSE /\ acquired.left = Tail(acquired.pending)
             /\ ret.value = ValueOf(Head(acquired.pending))
             /\ ret.item = Head(acquired.pending)

\* C14: with closing clear and only readings pending, acquire_data in
\* LATEST mode empties the response queue and returns the last reading it
\* held, averaged or not; with nothing pending it returns None
C14_LatestReturnsNewest ==
    (AcquiredIn({"LATEST"}) /\ ~HasNone(acquired.pending)) =>
        /\ acquired.left = <<>>
        /\ ret.item = LastOf(acquired.pending)
        /\ ret.value = ValueOf(ret.item)

\* C14 witness: LATEST has returned a partial reading that followed an
\* averaged one on the queue
C14_Witness ==
    /\ AcquiredIn({"LATEST"})
    /\ ~HasNone(acquired.pending)
    /\ AveragedOf(acquired.pending) # <<>>
    /\ ret.value = "Reading"
    /\ ~ret.item.averaged
    /\ acquired.left = <<>>

\* C15: the readings acquire_data returns, over all calls in any modes,
\* come in strictly increasing acquisition order: none is returned twice,
\* none after a reading acquired later
C15_ReturnedInAcquisitionOrder ==
    \A i, j \in 1..Len(returned) :
        i < j => returned[i].session_count < returned[j].session_count

\* C15 witness: KEEP_COMPLETE returned an averaged reading, a newer reading
\* pending at that call was dropped, and a later call returned a reading
\* the worker produced afterwards
C15_Witness ==
    /\ Len(returned) = 2
    /\ returned[1].averaged
    /\ returned[2].session_count >= returned[1].session_count + 2
    /\ ret.op = "acquire_data"
    /\ Len(acquired.pending) = 1

(***************************************************************************)
(* Claims about BalanceAcquisition (checked under SpecBalanceLinear and    *)
(* SpecBalance)                                                            *)
(***************************************************************************)
\* C16: on a device whose peak is k times the integration time, an
\* integration balance in which no overshoot occurs ends, returning True
\* (the peak within the threshold of the target)
C16_LinearPassConverges ==
    <>(overshoot_count > 0 \/ (bpc = "done" /\ balanced = "True"))

\* the peak of a spectrum as the claims state it: the sample at the
\* configured index, or the largest sample when no index is configured
ClaimedPeak(spectrum, pixel) ==
    IF pixel = NoneMsg
    THEN CHOOSE m \in {spectrum.samples[i] : i \in 1..Len(spectrum.samples)} :
             \A i \in 1..Len(spectrum.samples) : m >= spectrum.samples[i]
    ELSE spectrum.samples[pixel.index + 1]

\* this step is a pass of the loop that acquired a spectrum whose peak is
\* off the target by more than the threshold, above it or not
Adjusting(above) ==
    /\ bpc = "pass"
    /\ ~FailedToGetSpectrum(last_reading')
    /\ LET peak == ClaimedPeak(last_reading'.spectrum, balancer.pixel)
       IN  /\ Abs(balancer.intensity - peak) > balancer.threshold
           /\ (peak > balancer.intensity) = above

\* this step ends a balance_pass with result
PassEnds(result) ==
    /\ Len(passes') = Len(passes) + 1
    /\ passes'[Len(passes')].result = result

\* C17: overshoot_count is zero when a pass starts and goes up by one at
\* every adjustment made with the peak above the target, and at no other;
\* the pass fails at the sixth overshoot, which leaves the hardware alone,
\* and at no earlier one
C17_SixthOvershootFails ==
    /\ [][(bpc' = "pass" /\ (bpc = "idle" \/ Len(passes') > Len(passes))) =>
             overshoot_count' = 0]_vars
    /\ [][Adjusting(TRUE) =>
             /\ overshoot_count' = overshoot_count + 1
             /\ IF overshoot_count' = MaxOvershoots + 1
                THEN /\ PassEnds("False")
                     /\ state' = state
                     /\ hardware' = hardware
                ELSE /\ passes' = passes
                     /\ bpc' = "pass"]_vars
    /\ [][(Adjusting(FALSE) /\ bpc' = "pass" /\ passes' = passes) =>
             overshoot_count' = overshoot_count]_vars

\* C17 witness: a pass has failed at its sixth overshoot, after five
\* adjustments of the hardware
C17_Witness ==
    /\ bpc = "done"
    /\ balanced = "False"
    /\ overshoot_count = MaxOvershoots + 1
    /\ hardware.call # "none"
    /\ ~FailedToGetSpectrum(last_reading)

\* C18: every value set on the hardware is in range, the integration time
\* in 10..5000 and the laser power in 1..100
C18_AppliedValuesInRange ==
    /\ hardware.call = "set_integration_time_ms" =>
           hardware.value \in MinIntegrationTimeMS..MaxIntegrationTimeMS
    /\ hardware.call = "set_laser_power_perc" =>
           hardware.value \in MinLaserPowerPerc..MaxLaserPowerPerc

\* C18 witness: the laser power was 400, the peak above the target, and the
\* half of 400 went to the hardware as 100
C18_Witness ==
    /\ hardware = HardwareCall("set_laser_power_perc", MaxLaserPowerPerc)
    /\ overshoot_count = 1
    /\ state.laser_power = MaxLaserPowerPerc

\* C19: a pass returns True only when the peak of the reading it acquired
\* last is within the threshold of the target, and the pass of the loop
\* that returns True sets nothing on the hardware
C19_SuccessMeansBalanced ==
    [][PassEnds("True") =>
          /\ ~FailedToGetSpectrum(last_reading')
          /\ Abs(balancer.intensity - ClaimedPeak(last_reading'.spectrum, balancer.pixel))
                 <= balancer.threshold
          /\ state' = state
          /\ hardware' = hardware]_vars

\* C19 witness: a pass has returned True, after an adjustment, on a
\* spectrum whose sample at the configured index is not its largest
C19_Witness ==
    /\ passes # <<>>
    /\ passes[1].result = "True"
    /\ hardware.call # "none"
    /\ balancer.pixel # NoneMsg
    /\ bpc = "done"
    /\ \E i \in 1..MaxSamples :
          last_reading.spectrum.samples[i]
              > last_reading.spectrum.samples[balancer.pixel.index + 1]

\* C20: a pass that acquires None, or a reading whose spectrum is None,
\* returns False at once, and the integration time and the laser power
\* stay as they are
C20_FailedAcquisitionFailsPass ==
    [][(bpc = "pass" /\ FailedToGetSpectrum(last_reading')) =>
          /\ PassEnds("False")
          /\ bpc' = "done"
          /\ balanced' = "False"
          /\ state' = state
          /\ hardware' = hardware]_vars

\* C20 witness: a pass that had adjusted the hardware has returned False on
\* a reading without a spectrum
C20_Witness ==
    /\ bpc = "done"
    /\ balanced = "False"
    /\ last_reading # NoneMsg
    /\ last_reading.spectrum = NoneMsg
    /\ hardware.call # "none"
    /\ overshoot_count <= MaxOvershoots

\* C21: in LASER_THEN_INTEGRATION mode the integration pass starts only
\* when the laser pass has returned True; when the laser pass fails,
\* balance() returns False and no integration time is ever set
C21_IntegrationOnlyAfterLaser ==
    /\ [](balancer.mode = LASER_THEN_INTEGRATION =>
            /\ (\/ adjust_func = "adjust_integration"
                \/ hardware.call = "set_integration_time_ms"
                \/ Len(passes) > 1) =>
                   (passes # <<>> /\ passes[1] = [adjust_func |-> "adjust_laser",
                                                  result |-> "True"])
            /\ (passes # <<>> /\ passes[1].result \in {"False", "None"}) =>
                   /\ bpc = "done"
                   /\ balanced = "False"
                   /\ Len(passes) = 1)
    /\ [][(balancer.mode = LASER_THEN_INTEGRATION /\ adjust_func = "adjust_laser") =>
             state'.integration_time_ms = state.integration_time_ms]_vars

\* C21 witness: a LASER_THEN_INTEGRATION balance has returned False from
\* its laser pass, which had set the laser power
C21_Witness ==
    /\ balancer.mode = LASER_THEN_INTEGRATION
    /\ bpc = "done"
    /\ balanced = "False"
    /\ passes = <<[adjust_func |-> "adjust_laser", result |-> "False"]>>
    /\ hardware.call = "set_laser_power_perc"


(***************************************************************************)
(* EEPROM: coeffs_look_valid and the laser power conversion                *)
(***************************************************************************)
\* math.isnan(c) of a float: exponent all ones and a mantissa that is not 0
IsNaN(c) ==
    /\ c.kind = "float"
    /\ c.v[4] % 128 = 127
    /\ c.v[3] >= 128
    /\ (c.v[3] % 128 # 0 \/ c.v[2] # 0 \/ c.v[1] # 0)

\* c is 0.0 or -0.0
IsZero(c) == c.kind = "float" /\ c.v[1] = 0 /\ c.v[2] = 0 /\ c.v[3] = 0 /\ c.v[4] % 128 = 0

\* Python's c == d of two floats: a NaN equals nothing, 0.0 equals -0.0
FloatEq(c, d) ==
    /\ ~IsNaN(c)
    /\ ~IsNaN(d)
    /\ (c = d \/ (IsZero(c) /\ IsZero(d)))

\* Python's c <= 0 of a float
FloatLE0(c) == c.kind = "float" /\ ~IsNaN(c) /\ (IsZero(c) \/ c.v[4] >= 128)

\* lines 572-583, from index i on: "nan" when the loop returns False at a
\* NaN, "break" when it leaves with all_default False, "all_default" when
\* it runs to the end
RECURSIVE AllDefaultLoop(_, _)
AllDefaultLoop(coeffs, i) ==
    IF i >= Len(coeffs)
    THEN "all_default"
    ELSE LET c == coeffs[i + 1]
         IN  IF IsNaN(c)
             THEN "nan"
             ELSE IF i = 1
                  THEN IF ~FloatEq(c, FloatOne) THEN "break" ELSE AllDefaultLoop(coeffs, i + 1)
                  ELSE IF ~FloatEq(c, FloatZero) THEN "break" ELSE AllDefaultLoop(coeffs, i + 1)

\* lines 589-593: no c in coeffs has c != const
AllConst(coeffs, const) == \A i \in 1..Len(coeffs) : FloatEq(coeffs[i], const)

\* coeffs_look_valid(coeffs, count): "True", "False", or the exception it
\* raises; line 585 returns the name false, which nothing defines
CoeffsLookValid(coeffs, cnt) ==
    IF coeffs = NoneMsg
    THEN "False"
    ELSE IF cnt # NoneMsg /\ Len(coeffs.v) # cnt.v
    THEN "False"
    ELSE LET loop == AllDefaultLoop(coeffs.v, 0)
         IN  IF loop = "nan"
             THEN "False"
             ELSE IF loop = "all_default"
             THEN "NameError"
             ELSE IF AllConst(coeffs.v, FloatMinusOne) \/ AllConst(coeffs.v, FloatZero)
             THEN "False"
             ELSE "True"

\* the count has_laser_power_calibration passes
LaserPowerCoeffCount == 4

HasLaserPowerCalibration(self) ==
    IF FloatLE0(self.max_laser_power_mW)
    THEN "False"
    ELSE CoeffsLookValid(self.laser_power_coeffs, PyInt(LaserPowerCoeffCount))

\* laser_power_mW_to_percent(mW): "0", "perc" for the value of the cubic,
\* or the exception raised
LaserPowerMWToPercent(self) ==
    LET has == HasLaserPowerCalibration(self)
    IN  IF has = "False" THEN "0" ELSE IF has = "True" THEN "perc" ELSE has

\* what raised holds after a call that came to result
RaisedBy(result) ==
    IF result \in {"NameError", "struct.error", "IndexError", "TypeError", "Exception"}
    THEN result
    ELSE "none"

\* self.coeffs_look_valid(self.laser_power_coeffs, coeff_count)
CoeffsLookValidCall ==
    /\ looked = "none"
    /\ looked' = CoeffsLookValid(eeprom.laser_power_coeffs, coeff_count)
    /\ raised' = RaisedBy(looked')
    /\ epc' = "coeffs_look_valid"
    /\ UNCHANGED <<eeprom, buffers, write_buffers, reparsed, new_eeprom, before, coeff_count, printed,
                   percent, ddvars, wrappervars, balvars>>

LaserPowerMWToPercentCall ==
    /\ percent = "none"
    /\ percent' = LaserPowerMWToPercent(eeprom)
    /\ raised' = RaisedBy(percent')
    /\ epc' = "laser_power_mW_to_percent"
    /\ UNCHANGED <<eeprom, buffers, write_buffers, reparsed, new_eeprom, before, coeff_count, printed,
                   looked, ddvars, wrappervars, balvars>>

CoeffsNext == CoeffsLookValidCall \/ LaserPowerMWToPercentCall

(***************************************************************************)
(* SpecCoeffs: an EEPROM whose laser power calibration is any list of      *)
(* up to MaxCoeffs coefficients, or None                                   *)
(***************************************************************************)
MaxCoeffs == 4

Coeffs == {FloatZero, FloatOne, FloatMinusOne, FloatHalf, FloatNaN}

CoeffLists == {NoneMsg} \cup {PyList(c) : c \in SeqUpTo(Coeffs, MaxCoeffs)}

MaxLaserPowers == {FloatZero, FloatMinusOne, FloatHundred}

CoeffsInit ==
    /\ WrapperIdle
    /\ BalanceIdle
    /\ \E c \in CoeffLists, p \in MaxLaserPowers :
         eeprom = [EEPROM EXCEPT !.laser_power_coeffs = c, !.max_laser_power_mW = p]
    /\ coeff_count \in {NoneMsg, PyInt(LaserPowerCoeffCount)}
    /\ buffers = <<>>
    /\ write_buffers = <<>>
    /\ raised = "none"
    /\ epc = "constructed"
    /\ reparsed = NoneMsg
    /\ new_eeprom = NoneMsg
    /\ before = NoneMsg
    /\ looked = "none"
    /\ percent = "none"
    /\ printed = NoneMsg

SpecCoeffs == CoeffsInit /\ [][CoeffsNext]_vars

(***************************************************************************)
(* EEPROM: unpack and read_eeprom                                          *)
(***************************************************************************)
\* the bytes of a page, and the slots page 5 has for bad pixels
PageSize == 64

BadPixelSlots == 15

\* a buffer: array.array('B', ...), its bytes at 1..Len
PyArray(bytes) == [kind |-> "array", v |-> bytes]

\* buf[start_byte:end_byte], offsets counted from 0
Slice(bytes, start_byte, end_byte) ==
    [i \in 1..(Min2(end_byte, Len(bytes)) - start_byte) |-> bytes[start_byte + i]]

\* struct.calcsize(data_type)
CalcSize(data_type) ==
    CASE data_type \in {"B", "?"} -> 1
      [] data_type \in {"H", "h"} -> 2
      [] data_type \in {"I", "f"} -> 4

\* struct.unpack(data_type, b)[0] on a little-endian host; the bare except
\* of lines 404-407 leaves 0 when the sizes differ
StructUnpack(data_type, b) ==
    IF Len(b) # CalcSize(data_type)
    THEN PyInt(0)
    ELSE CASE data_type = "B" -> PyInt(b[1])
           [] data_type = "?" -> PyBool(b[1] # 0)
           [] data_type = "H" -> PyInt(b[1] + 256 * b[2])
           [] data_type = "h" -> PyInt(IF b[2] >= 128
                                       THEN b[1] + 256 * b[2] - 65536
                                       ELSE b[1] + 256 * b[2])
           [] data_type = "I" -> PyInt(b[1] + 256 * b[2] + 65536 * b[3] + 16777216 * b[4])
           [] data_type = "f" -> PyFloat(b)

\* lines 397-401: the characters before the first NUL
RECURSIVE UntilNul(_)
UntilNul(b) == IF b = <<>> \/ b[1] = 0 THEN <<>> ELSE <<b[1]>> \o UntilNul(Tail(b))

\* unpack(address, data_type) on the given buffers
Unpack(bufs, address, data_type) ==
    LET start_byte == address[2]
        end_byte == address[2] + address[3]
        buf == bufs[address[1] + 1]
    IN  IF buf = NoneMsg \/ end_byte > Len(buf.v)
        THEN NoneMsg
        ELSE IF data_type = "s"
             THEN PyStr(UntilNul(Slice(buf.v, start_byte, end_byte)))
             ELSE StructUnpack(data_type, Slice(buf.v, start_byte, end_byte))

\* printable that passes over a zero byte and goes on
RECURSIVE PrintableNoStop(_)
PrintableNoStop(b) ==
    IF b = <<>>
    THEN <<>>
    ELSE (IF b[1] = 0 THEN <<>> ELSE <<IF 31 < b[1] /\ b[1] < 127 THEN b[1] ELSE 46>>)
            \o PrintableNoStop(Tail(b))

\* printable(buf): the codes of the string built
RECURSIVE Printable(_)
Printable(b) ==
    IF b = <<>> \/ b[1] = 0
    THEN <<>>
    ELSE <<IF 31 < b[1] /\ b[1] < 127 THEN b[1] ELSE 46>> \o Printable(Tail(b))

\* self.format >= first; Python 2 orders None below every int
FormatAtLeast(fmt, first) == fmt # NoneMsg /\ fmt.v >= first

\* the data type of the fields read as "H" from some format on and as "h"
\* before it
UnsignedFrom(fmt, first) == IF FormatAtLeast(fmt, first) THEN "H" ELSE "h"

\* the startup and detector fields read from format 2 on
HasStartupFieldsFromTwo(fmt) == FormatAtLeast(fmt, 2)

\* line 264: page 0 holds the startup and detector fields
HasStartupFields(fmt) == FormatAtLeast(fmt, 3)

\* line 304: the integration time limits are the 16-bit fields of page 2
HasShortIntegrationTimes(fmt) == ~FormatAtLeast(fmt, 5)

\* the 32-bit fields of page 3 read from format 4 on
HasLongIntegrationTimesFromFour(fmt) == FormatAtLeast(fmt, 4)

\* line 340: the integration time limits are the 32-bit fields of page 3
HasLongIntegrationTimes(fmt) == FormatAtLeast(fmt, 5)

\* the data type of active_pixels_horizontal (line 302)
ActivePixelsHorizontalType(fmt) == "H"

\* the other active pixel and ROI fields read as unsigned at every format
RoiTypeUnsigned(fmt) == "H"

\* the data type of the other active pixel and ROI fields (lines 303-316)
RoiType(fmt) == UnsignedFrom(fmt, 4)

\* lines 355-361: the pixels of page 5 that are not -1
BadPixelSet(bufs) ==
    {Unpack(bufs, <<5, c * 2, 2>>, "h") : c \in 0..(BadPixelSlots - 1)} \ {PyInt(-1)}

\* list(bad), sorted
RECURSIVE Sorted(_)
Sorted(S) ==
    IF S = {}
    THEN <<>>
    ELSE LET least == CHOOSE x \in S : \A y \in S : x <= y
         IN  <<least>> \o Sorted(S \ {least})

\* the items of a list of ints as values
RECURSIVE PyInts(_)
PyInts(q) == IF q = <<>> THEN <<>> ELSE <<PyInt(q[1])>> \o PyInts(Tail(q))

\* lines 360-361: the list of the pixels, sorted; Python 2 sorts a None
\* before every int
SortedPixels(bad) ==
    (IF NoneMsg \in bad THEN <<NoneMsg>> ELSE <<>>)
        \o PyInts(Sorted({x.v : x \in bad \ {NoneMsg}}))

\* line 348: self.buffers[4][:63] raises when page 4 is None
ReadEepromRaises(bufs) == IF bufs[5] = NoneMsg THEN "TypeError" ELSE "none"

\* the floats read at the given offsets of a page
Floats(bufs, page, offsets) ==
    PyList([i \in 1..Len(offsets) |-> Unpack(bufs, <<page, offsets[i], 4>>, "f")])

\* read_eeprom() with self.buffers = bufs: the fields of self when it
\* returns, or when it raises at line 348
ReadEeprom(self, bufs) ==
    LET fmt == Unpack(bufs, <<0, 63, 1>>, "B")
        excitation_nm == Unpack(bufs, <<0, 39, 2>>, UnsignedFrom(fmt, 3))
        active_pixels_vertical == Unpack(bufs, <<2, 19, 2>>, RoiType(fmt))
        user_data == PyArray(Slice(bufs[5].v, 0, 63))
        page0 ==
            [self EXCEPT
                !.format = fmt,
                !.model = Unpack(bufs, <<0, 0, 16>>, "s"),
                !.serial_number = Unpack(bufs, <<0, 16, 16>>, "s"),
                !.baud_rate = Unpack(bufs, <<0, 32, 4>>, "I"),
                !.has_cooling = Unpack(bufs, <<0, 36, 1>>, "?"),
                !.has_battery = Unpack(bufs, <<0, 37, 1>>, "?"),
                !.has_laser = Unpack(bufs, <<0, 38, 1>>, "?"),
                !.excitation_nm = excitation_nm,
                !.slit_size_um = Unpack(bufs, <<0, 41, 2>>, UnsignedFrom(fmt, 4))]
        startup ==
            IF HasStartupFields(fmt)
            THEN [page0 EXCEPT
                    !.startup_integration_time_ms = Unpack(bufs, <<0, 43, 2>>, "H"),
                    !.startup_temp_degC = Unpack(bufs, <<0, 45, 2>>, "h"),
                    !.startup_triggering_scheme = Unpack(bufs, <<0, 47, 1>>, "B"),
                    !.detector_gain = Unpack(bufs, <<0, 48, 4>>, "f"),
                    !.detector_offset = Unpack(bufs, <<0, 52, 2>>, "h"),
                    !.detector_gain_odd = Unpack(bufs, <<0, 54, 4>>, "f"),
                    !.detector_offset_odd = Unpack(bufs, <<0, 58, 2>>, "h")]
            ELSE page0
        page1 ==
            [startup EXCEPT
                !.wavelength_coeffs = Floats(bufs, 1, <<0, 4, 8, 12>>),
                !.degC_to_dac_coeffs = Floats(bufs, 1, <<16, 20, 24>>),
                !.max_temp_degC = Unpack(bufs, <<1, 28, 2>>, "h"),
                !.min_temp_degC = Unpack(bufs, <<1, 30, 2>>, "h"),
                !.adc_to_degC_coeffs = Floats(bufs, 1, <<32, 36, 40>>),
                !.tec_r298 = Unpack(bufs, <<1, 44, 2>>, "h"),
                !.tec_beta = Unpack(bufs, <<1, 46, 2>>, "h"),
                !.calibration_date = Unpack(bufs, <<1, 48, 12>>, "s"),
                !.calibrated_by = Unpack(bufs, <<1, 60, 3>>, "s")]
        short ==
            IF HasShortIntegrationTimes(fmt)
            THEN [page1 EXCEPT
                    !.min_integration_time_ms = Unpack(bufs, <<2, 21, 2>>, "H"),
                    !.max_integration_time_ms = Unpack(bufs, <<2, 23, 2>>, "H")]
            ELSE page1
        page2 ==
            [short EXCEPT
                !.detector = Unpack(bufs, <<2, 0, 16>>, "s"),
                !.active_pixels_horizontal =
                    Unpack(bufs, <<2, 16, 2>>, ActivePixelsHorizontalType(fmt)),
                !.active_pixels_vertical = active_pixels_vertical,
                !.actual_horizontal = Unpack(bufs, <<2, 25, 2>>, RoiType(fmt)),
                !.actual_vertical = active_pixels_vertical,
                !.roi_horizontal_start = Unpack(bufs, <<2, 27, 2>>, RoiType(fmt)),
                !.roi_horizontal_end = Unpack(bufs, <<2, 29, 2>>, RoiType(fmt)),
                !.roi_vertical_region_1_start = Unpack(bufs, <<2, 31, 2>>, RoiType(fmt)),
                !.roi_vertical_region_1_end = Unpack(bufs, <<2, 33, 2>>, RoiType(fmt)),
                !.roi_vertical_region_2_start = Unpack(bufs, <<2, 35, 2>>, RoiType(fmt)),
                !.roi_vertical_region_2_end = Unpack(bufs, <<2, 37, 2>>, RoiType(fmt)),
                !.roi_vertical_region_3_start = Unpack(bufs, <<2, 39, 2>>, RoiType(fmt)),
                !.roi_vertical_region_3_end = Unpack(bufs, <<2, 41, 2>>, RoiType(fmt)),
                !.linearity_coeffs = Floats(bufs, 2, <<43, 47, 51, 55, 59>>)]
        page3 ==
            [page2 EXCEPT
                !.laser_power_coeffs = Floats(bufs, 3, <<12, 16, 20, 24>>),
                !.max_laser_power_mW = Unpack(bufs, <<3, 28, 4>>, "f"),
                !.min_laser_power_mW = Unpack(bufs, <<3, 32, 4>>, "f"),
                !.excitation_nm_float =
                    IF ~FormatAtLeast(fmt, 4) THEN excitation_nm ELSE Unpack(bufs, <<3, 36, 4>>, "f")]
        long ==
            IF HasLongIntegrationTimes(fmt)
            THEN [page3 EXCEPT
                    !.min_integration_time_ms = Unpack(bufs, <<3, 40, 4>>, "I"),
                    !.max_integration_time_ms = Unpack(bufs, <<3, 44, 4>>, "I")]
            ELSE page3
    IN  IF ReadEepromRaises(bufs) # "none"
        THEN long
        ELSE [long EXCEPT
                !.user_data = user_data,
                !.user_text = PyStr(Printable(user_data.v)),
                !.bad_pixels = PyList(SortedPixels(BadPixelSet(bufs))),
                !.product_configuration = Unpack(bufs, <<5, 30, 16>>, "s")]

(***************************************************************************)
(* EEPROM: pack and generate_write_buffers                                 *)
(***************************************************************************)
RECURSIVE FloorLog2(_)
FloorLog2(i) == IF i < 2 THEN 0 ELSE 1 + FloorLog2(i \div 2)

RECURSIVE Pow2(_)
Pow2(k) == IF k = 0 THEN 1 ELSE 2 * Pow2(k - 1)

\* the bytes struct packs an int as "f": exact for the ints below 2^24 in
\* magnitude, which is every int a 16-bit field holds
IntToSingle(i) ==
    IF i = 0
    THEN <<0, 0, 0, 0>>
    ELSE LET e == FloorLog2(Abs(i))
             mantissa == (Abs(i) - Pow2(e)) * Pow2(23 - e)
             exponent == e + 127
         IN  <<mantissa % 256,
               (mantissa \div 256) % 256,
               (exponent % 2) * 128 + mantissa \div 65536,
               (IF i < 0 THEN 128 ELSE 0) + exponent \div 2>>

\* struct.pack(data_type, value) on a little-endian host: the bytes, or
\* <<>> when struct.error is raised
StructPack(data_type, value) ==
    CASE data_type = "?" -> <<IF value.v = TRUE THEN 1 ELSE 0>>
      [] data_type = "B" ->
            IF value.kind = "int" /\ value.v >= 0 /\ value.v <= 255 THEN <<value.v>> ELSE <<>>
      [] data_type = "H" ->
            IF value.kind = "int" /\ value.v >= 0 /\ value.v <= 65535
            THEN <<value.v % 256, value.v \div 256>>
            ELSE <<>>
      [] data_type = "h" ->
            IF value.kind = "int" /\ value.v >= -32768 /\ value.v <= 32767
            THEN <<value.v % 256, ((value.v + 65536) \div 256) % 256>>
            ELSE <<>>
      [] data_type = "I" ->
            \* every int of the model is below 2^32
            IF value.kind = "int" /\ value.v >= 0
            THEN <<value.v % 256, (value.v \div 256) % 256, (value.v \div 65536) % 256,
                   value.v \div 16777216>>
            ELSE <<>>
      [] data_type = "f" ->
            CASE value.kind = "float" -> value.v
              [] value.kind = "double" -> value.single
              [] value.kind = "int" -> IntToSingle(value.v)
              [] OTHER -> <<>>

\* buf[start_byte + i] = b[i] for every byte of b
Poke(bytes, start_byte, b) ==
    [i \in 1..Len(bytes) |->
        IF i > start_byte /\ i <= start_byte + Len(b) THEN b[i - start_byte] ELSE bytes[i]]

\* write_buffers as a call of generate_write_buffers has them, and the
\* exception that ended the call, if one did
Written(bufs, exception) == [bufs |-> bufs, raised |-> exception]

\* the argument of a pack call that could not be evaluated
Unevaluated(exception) == [kind |-> exception]

\* coeffs[i] as Python evaluates it, i counted from 0
Item(coeffs, i) ==
    IF coeffs = NoneMsg
    THEN Unevaluated("TypeError")
    ELSE IF i < Len(coeffs.v) THEN coeffs.v[i + 1] ELSE Unevaluated("IndexError")

\* int(round(x, 0)) of the values excitation_nm holds: an int, or the 0.0
\* of the constructor
IntRound(x) ==
    CASE x = NoneMsg -> Unevaluated("TypeError")
      [] x.kind = "int" -> x
      [] x.kind = "float" /\ IsZero(x) -> PyInt(0)

\* max(0xffff, x) of lines 514 and 515; Python 2 orders None below every int
LegacyIntegrationTime(x) == IF x = NoneMsg THEN PyInt(65535) ELSE PyInt(Max2(65535, x.v))

\* pack(address, data_type, value) on the write buffers w
Pack(w, address, data_type, value) ==
    LET page == address[1]
        start_byte == address[2]
        length == address[3]
        end_byte == address[2] + address[3]
        buf == w.bufs[page + 1]
    IN  IF w.raised # "none"
        THEN w
        ELSE IF value.kind \in {"TypeError", "IndexError"}
        THEN Written(w.bufs, value.kind)
        ELSE IF buf = NoneMsg \/ end_byte > 63
        THEN Written(w.bufs, "Exception")
        ELSE IF value = NoneMsg /\ data_type \notin {"H", "I"}
        THEN \* len(None) (line 438), or struct given no number (444)
             Written(w.bufs, IF data_type = "s" THEN "TypeError" ELSE "struct.error")
        ELSE IF data_type = "s"
        THEN Written([w.bufs EXCEPT ![page + 1] =
                        PyArray(Poke(buf.v, start_byte,
                                     SubSeq(value.v, 1, Min2(length, Len(value.v)))))],
                     "none")
        ELSE LET \* line 428: value < 0, which Python 2 finds true of None
                 clamped == IF /\ data_type \in {"H", "I"}
                               /\ (value = NoneMsg \/ (value.kind = "int" /\ value.v < 0))
                            THEN PyInt(0)
                            ELSE value
                 b == StructPack(data_type, clamped)
             IN  IF b = <<>>
                 THEN Written(w.bufs, "struct.error")
                 ELSE Written([w.bufs EXCEPT ![page + 1] = PyArray(Poke(buf.v, start_byte, b))],
                              "none")

\* the pack calls of a list, in order: each one is <<address, data_type, value>>
RECURSIVE PackAll(_, _, _)
PackAll(w, calls, i) ==
    IF i > Len(calls)
    THEN w
    ELSE LET packed == Pack(w, calls[i][1], calls[i][2], calls[i][3])
         IN  IF packed.raised # "none" THEN packed ELSE PackAll(packed, calls, i + 1)

\* EEPROM.USE_REV_4
USE_REV_4 == TRUE

\* every page stamped with revision 1
revsAllOne == <<1, 1, 1, 1, 1, 1>>

\* lines 460-472: the revision byte of each page, page 0 first
revs == <<IF USE_REV_4 THEN 5 ELSE 1, 1, 2, 255, 1, 1>>

\* lines 455-472: six blank buffers with their revision bytes
BlankBuffers ==
    [page \in 1..6 |-> PyArray([i \in 1..PageSize |-> IF i = PageSize THEN revs[page] ELSE 0])]

\* the bad pixels packed as the list has them, neither sorted nor rid of
\* duplicates
BadPixelsToWriteInOrder(bad_pixels) ==
    LET kept == SelectSeq(bad_pixels.v, LAMBDA x : x # NoneMsg /\ x.v >= 0)
    IN  [i \in 1..BadPixelSlots |-> IF i <= Len(kept) THEN kept[i].v ELSE -1]

\* lines 546-557: the value packed in each bad pixel slot
BadPixelsToWrite(bad_pixels) ==
    LET \* line 548: i >= 0, which Python 2 finds false of None
        kept == {x \in {bad_pixels.v[i] : i \in 1..Len(bad_pixels.v)} :
                    x # NoneMsg /\ x.v >= 0}
        sorted == Sorted({x.v : x \in kept})
    IN  [i \in 1..BadPixelSlots |-> IF i <= Len(sorted) THEN sorted[i] ELSE -1]

\* generate_write_buffers(): the buffers built and the exception raised
GenerateWriteBuffers(self) ==
    LET to_write == BadPixelsToWrite(self.bad_pixels)
    IN  PackAll(Written(BlankBuffers, "none"),
          << <<<<0, 0, 16>>, "s", self.model>>,
             <<<<0, 16, 16>>, "s", self.serial_number>>,
             <<<<0, 32, 4>>, "I", self.baud_rate>>,
             <<<<0, 36, 1>>, "?", self.has_cooling>>,
             <<<<0, 37, 1>>, "?", self.has_battery>>,
             <<<<0, 38, 1>>, "?", self.has_laser>>,
             <<<<0, 39, 2>>, "H", IntRound(self.excitation_nm)>>,
             <<<<0, 41, 2>>, "H", self.slit_size_um>>,
             <<<<0, 43, 2>>, "H", self.startup_integration_time_ms>>,
             <<<<0, 45, 2>>, "h", self.startup_temp_degC>>,
             <<<<0, 47, 1>>, "B", self.startup_triggering_scheme>>,
             <<<<0, 48, 4>>, "f", self.detector_gain>>,
             <<<<0, 52, 2>>, "h", self.detector_offset>>,
             <<<<0, 54, 4>>, "f", self.detector_gain_odd>>,
             <<<<0, 58, 2>>, "h", self.detector_offset_odd>>,
             <<<<1, 0, 4>>, "f", Item(self.wavelength_coeffs, 0)>>,
             <<<<1, 4, 4>>, "f", Item(self.wavelength_coeffs, 1)>>,
             <<<<1, 8, 4>>, "f", Item(self.wavelength_coeffs, 2)>>,
             <<<<1, 12, 4>>, "f", Item(self.wavelength_coeffs, 3)>>,
             <<<<1, 16, 4>>, "f", Item(self.degC_to_dac_coeffs, 0)>>,
             <<<<1, 20, 4>>, "f", Item(self.degC_to_dac_coeffs, 1)>>,
             <<<<1, 24, 4>>, "f", Item(self.degC_to_dac_coeffs, 2)>>,
             <<<<1, 32, 4>>, "f", Item(self.adc_to_degC_coeffs, 0)>>,
             <<<<1, 36, 4>>, "f", Item(self.adc_to_degC_coeffs, 1)>>,
             <<<<1, 40, 4>>, "f", Item(self.adc_to_degC_coeffs, 2)>>,
             <<<<1, 28, 2>>, "h", self.max_temp_degC>>,
             <<<<1, 30, 2>>, "h", self.min_temp_degC>>,
             <<<<1, 44, 2>>, "h", self.tec_r298>>,
             <<<<1, 46, 2>>, "h", self.tec_beta>>,
             <<<<1, 48, 12>>, "s", self.calibration_date>>,
             <<<<1, 60, 3>>, "s", self.calibrated_by>>,
             <<<<2, 0, 16>>, "s", self.detector>>,
             <<<<2, 16, 2>>, "H", self.active_pixels_horizontal>>,
             <<<<2, 19, 2>>, "H", self.active_pixels_vertical>>,
             <<<<2, 21, 2>>, "H", LegacyIntegrationTime(self.min_integration_time_ms)>>,
             <<<<2, 23, 2>>, "H", LegacyIntegrationTime(self.max_integration_time_ms)>>,
             <<<<2, 25, 2>>, "H", self.actual_horizontal>>,
             <<<<2, 27, 2>>, "H", self.roi_horizontal_start>>,
             <<<<2, 29, 2>>, "H", self.roi_horizontal_end>>,
             <<<<2, 31, 2>>, "H", self.roi_vertical_region_1_start>>,
             <<<<2, 33, 2>>, "H", self.roi_vertical_region_1_end>>,
             <<<<2, 35, 2>>, "H", self.roi_vertical_region_2_start>>,
             <<<<2, 37, 2>>, "H", self.roi_vertical_region_2_end>>,
             <<<<2, 39, 2>>, "H", self.roi_vertical_region_3_start>>,
             <<<<2, 41, 2>>, "H", self.roi_vertical_region_3_end>>,
             <<<<2, 43, 4>>, "f", Item(self.linearity_coeffs, 0)>>,
             <<<<2, 47, 4>>, "f", Item(self.linearity_coeffs, 1)>>,
             <<<<2, 51, 4>>, "f", Item(self.linearity_coeffs, 2)>>,
             <<<<2, 55, 4>>, "f", Item(self.linearity_coeffs, 3)>>,
             <<<<2, 59, 4>>, "f", Item(self.linearity_coeffs, 4)>>,
             <<<<3, 12, 4>>, "f", Item(self.laser_power_coeffs, 0)>>,
             <<<<3, 16, 4>>, "f", Item(self.laser_power_coeffs, 1)>>,
             <<<<3, 20, 4>>, "f", Item(self.laser_power_coeffs, 2)>>,
             <<<<3, 24, 4>>, "f", Item(self.laser_power_coeffs, 3)>>,
             <<<<3, 28, 4>>, "f", self.max_laser_power_mW>>,
             <<<<3, 32, 4>>, "f", self.min_laser_power_mW>>,
             <<<<3, 36, 4>>, "f", self.excitation_nm_float>>,
             <<<<3, 40, 4>>, "I", self.min_integration_time_ms>>,
             <<<<3, 44, 4>>, "I", self.max_integration_time_ms>>,
             <<<<4, 0, 63>>, "s", self.user_text>> >>
          \o [i \in 1..BadPixelSlots |-> <<<<5, (i - 1) * 2, 2>>, "h", PyInt(to_write[i])>>]
          \o << <<<<5, 30, 16>>, "s", self.product_configuration>> >>,
          1)

(***************************************************************************)
(* EEPROM: parse, update_editable, generate_write_buffers as actions       *)
(***************************************************************************)
\* Python's old == new of two field values: an int equals the float of
\* the same value, a NaN equals nothing
PyEq(old, new) ==
    IF old = NoneMsg \/ new = NoneMsg
    THEN old = new
    ELSE CASE old.kind = "int" /\ new.kind = "float" -> IntToSingle(old.v) = new.v
           [] old.kind = "float" /\ new.kind = "int" -> old.v = IntToSingle(new.v)
           [] old.kind = "float" /\ new.kind = "float" -> FloatEq(old, new)
           [] OTHER -> old = new

\* every field copied, whether editable or not
UpdateEditableAll(self, new) == new

\* update_editable(new): the fields of self afterwards
UpdateEditable(self, new) ==
    [field \in DOMAIN self |->
        IF field \in editable /\ ~PyEq(self[field], new[field]) THEN new[field] ELSE self[field]]

\* parse(bufs) on the EEPROM as constructed
EepromParse(bufs) ==
    /\ epc = "constructed"
    /\ IF Len(bufs) < 6
       THEN /\ raised' = "none"
            /\ UNCHANGED <<eeprom, buffers, epc>>
       ELSE /\ buffers' = bufs
            /\ eeprom' = ReadEeprom(eeprom, bufs)
            /\ raised' = ReadEepromRaises(bufs)
            /\ epc' = "parsed"
    /\ UNCHANGED <<write_buffers, reparsed, new_eeprom, before, coeff_count, printed, looked, percent,
                   ddvars, wrappervars, balvars>>

\* update_editable(new) on the EEPROM that parsed its pages
EepromUpdateEditable(new) ==
    /\ epc = "parsed"
    /\ before' = eeprom
    /\ new_eeprom' = new
    /\ eeprom' = UpdateEditable(eeprom, new)
    /\ epc' = "updated"
    /\ raised' = "none"
    /\ UNCHANGED <<buffers, write_buffers, reparsed, coeff_count, printed, looked, percent,
                   ddvars, wrappervars, balvars>>

\* generate_write_buffers(); the buffers stay as the call left them when
\* it raises
EepromGenerate ==
    /\ epc \in {"constructed", "parsed", "updated"}
    /\ LET w == GenerateWriteBuffers(eeprom)
       IN  /\ write_buffers' = w.bufs
           /\ raised' = w.raised
    /\ epc' = "generated"
    /\ UNCHANGED <<eeprom, buffers, reparsed, new_eeprom, before, coeff_count, printed, looked, percent,
                   ddvars, wrappervars, balvars>>

\* a new EEPROM parses the buffers written
EepromReparse ==
    /\ epc = "generated"
    /\ raised = "none"
    /\ reparsed' = ReadEeprom(EEPROM, write_buffers)
    /\ epc' = "reparsed"
    /\ UNCHANGED <<eeprom, buffers, write_buffers, raised, new_eeprom, before, coeff_count, printed,
                   looked, percent, ddvars, wrappervars, balvars>>

(***************************************************************************)
(* SpecCodec: the pages an EEPROM is given and the objects it is updated   *)
(* from                                                                     *)
(***************************************************************************)
\* the highest format byte of the pages, and the longest list of bad
\* pixels assigned to an EEPROM
MaxFormat == 5

MaxBadPixels == 17

Formats == 2..MaxFormat

\* the bytes the pages hold where the model sets no field: all 0, all 255,
\* or bytes that differ from offset to offset
Fills == {"zero", "ones", "ramp"}

Fill(fill, page, offset) ==
    CASE fill = "zero" -> 0
      [] fill = "ones" -> 255
      [] fill = "ramp" -> (offset * 37 + page * 101 + 128) % 256

\* the bytes at offsets 21..24 of page 2: limits 1 and 1000, 10 and 60000
ShortLimits == {<<1, 0, 232, 3>>, <<10, 0, 96, 234>>}

\* the bytes at offsets 40..47 of page 3: limits 10 and 60000, 5 and 70000
LongLimits == {<<10, 0, 0, 0, 96, 234, 0, 0>>, <<5, 0, 0, 0, 112, 17, 1, 0>>}

\* the bytes of the slots of page 5 that hold the given pixels
RECURSIVE SlotBytes(_)
SlotBytes(pixels) ==
    IF pixels = <<>>
    THEN <<>>
    ELSE <<pixels[1] % 256, ((pixels[1] + 65536) \div 256) % 256>> \o SlotBytes(Tail(pixels))

\* what the slots of page 5 hold: nothing, two pixels, and pixels out of
\* order with a duplicate and a negative among them
SlotPixels ==
    {[i \in 1..BadPixelSlots |-> -1],
     [i \in 1..BadPixelSlots |-> IF i = 1 THEN 3 ELSE IF i = 2 THEN 7 ELSE -1],
     [i \in 1..BadPixelSlots |->
        CASE i = 1 -> 300 [] i = 3 -> 7 [] i = 4 -> 3 [] i = 6 -> 7 [] i = 9 -> -2 [] OTHER -> -1]}

\* six pages read from a spectrometer
Pages(fill, fmt, short_limits, long_limits, pixels) ==
    [page \in 1..6 |->
        LET filled == [i \in 1..PageSize |-> Fill(fill, page - 1, i - 1)]
        IN  PyArray(CASE page = 1 -> Poke(Poke(filled, 32, <<0, 194, 1, 0>>), 63, <<fmt>>)
                      [] page = 3 -> Poke(filled, 21, short_limits)
                      [] page = 4 -> Poke(filled, 40, long_limits)
                      [] page = 6 -> Poke(filled, 0, SlotBytes(pixels))
                      [] OTHER -> filled)]

PageSets ==
    {Pages(fill, fmt, short_limits, long_limits, pixels) :
        fill \in Fills, fmt \in Formats, short_limits \in ShortLimits,
        long_limits \in LongLimits, pixels \in SlotPixels}

\* the lists of bad pixels assigned to an EEPROM: none, duplicates and
\* negatives out of order, a pixel beyond one byte, and more pixels than
\* page 5 has slots
BadPixelLists ==
    {<<>>, <<7, 3, 7, -1, -2>>, <<300, 0>>, [i \in 1..MaxBadPixels |-> MaxBadPixels - i]}

\* the EEPROM objects passed to update_editable: one that parsed pages,
\* with a list of bad pixels assigned
NewEeproms ==
    {[ReadEeprom(EEPROM, Pages("ramp", MaxFormat, short_limits, long_limits,
                                [i \in 1..BadPixelSlots |-> -1]))
        EXCEPT !.bad_pixels = PyList(PyInts(pixels))] :
        short_limits \in {<<1, 0, 232, 3>>}, long_limits \in {<<10, 0, 0, 0, 96, 234, 0, 0>>},
        pixels \in BadPixelLists}

CodecInit ==
    /\ WrapperIdle
    /\ BalanceIdle
    /\ EepromIdle

CodecNext ==
    \/ \E bufs \in PageSets \cup {<<>>} : EepromParse(bufs)
    \/ \E new \in NewEeproms : EepromUpdateEditable(new)
    \/ EepromGenerate
    \/ EepromReparse

SpecCodec == CodecInit /\ [][CodecNext]_vars

(***************************************************************************)
(* SpecDamaged: an EEPROM parses pages of which one is None or short       *)
(***************************************************************************)
\* the lengths of a page that was not read whole
ShortLengths == {0, 20, 40}

\* the pages with one of them None, or cut to a shorter length
DamagedPages(bufs) ==
    {[bufs EXCEPT ![page] = NoneMsg] : page \in 1..6}
        \cup {[bufs EXCEPT ![page] = PyArray(SubSeq(bufs[page].v, 1, length))] :
                page \in 1..6, length \in ShortLengths}

DamagedPageSets ==
    UNION {DamagedPages(Pages(fill, fmt, <<10, 0, 96, 234>>, <<10, 0, 0, 0, 96, 234, 0, 0>>,
                              [i \in 1..BadPixelSlots |-> IF i = 2 THEN 7 ELSE -1])) :
             fill \in Fills, fmt \in Formats}

DamagedNext ==
    \/ \E bufs \in DamagedPageSets : EepromParse(bufs)
    \/ EepromGenerate

SpecDamaged == CodecInit /\ [][DamagedNext]_vars

(***************************************************************************)
(* SpecPrintable: printable on every bounded sequence of bytes             *)
(***************************************************************************)
\* the longest sequence of bytes passed to printable
MaxBytes == 4

\* a zero, the bytes at both ends of the printable range and next to them,
\* a letter and a byte above 127
Bytes == {0, 31, 32, 65, 126, 127, 200}

ByteSequences == SeqUpTo(Bytes, MaxBytes) \cup {<<72, 101, 0, 255, 65>>, <<200, 65>>}

PrintableInit ==
    /\ WrapperIdle
    /\ BalanceIdle
    /\ eeprom = EEPROM
    /\ buffers = <<>>
    /\ write_buffers = <<>>
    /\ raised = "none"
    /\ epc = "constructed"
    /\ reparsed = NoneMsg
    /\ new_eeprom = NoneMsg
    /\ before = NoneMsg
    /\ coeff_count = NoneMsg
    /\ looked = "none"
    /\ percent = "none"
    /\ \E b \in ByteSequences : printed = [buf |-> b, text |-> NoneMsg]

\* self.printable(buf)
PrintableCall ==
    /\ printed.text = NoneMsg
    /\ printed' = [printed EXCEPT !.text = PyStr(Printable(printed.buf))]
    /\ epc' = "printable"
    /\ UNCHANGED <<eeprom, buffers, write_buffers, raised, reparsed, new_eeprom, before,
                   coeff_count, looked, percent, ddvars, wrappervars, balvars>>

SpecPrintable == PrintableInit /\ [][PrintableCall]_vars

(***************************************************************************)
(* Properties of the EEPROM codec                                          *)
(***************************************************************************)
\* self holds what read_eeprom decoded from the pages given to parse
Decoded == buffers # <<>> /\ before = NoneMsg

\* the two bytes at an offset of a page given to parse, as an unsigned and
\* as a signed 16-bit number, and the four bytes as an unsigned 32-bit one
WordAt(page, offset) ==
    buffers[page + 1].v[offset + 1] + 256 * buffers[page + 1].v[offset + 2]

SignedWordAt(page, offset) ==
    IF WordAt(page, offset) >= 32768 THEN WordAt(page, offset) - 65536 ELSE WordAt(page, offset)

LongAt(page, offset) == WordAt(page, offset) + 65536 * WordAt(page, offset + 2)

\* the fields generate_write_buffers packs at the offset read_eeprom
\* unpacks them from at the format of self
MatchingFields ==
    DOMAIN eeprom \
        ({"format", "actual_vertical", "user_data"}
         \cup (IF eeprom.format.v < 3
               THEN {"startup_integration_time_ms", "startup_temp_degC",
                     "startup_triggering_scheme", "detector_gain", "detector_offset",
                     "detector_gain_odd", "detector_offset_odd"}
               ELSE {})
         \cup (IF eeprom.format.v < 4 THEN {"excitation_nm_float"} ELSE {})
         \cup (IF eeprom.format.v < 5
               THEN {"min_integration_time_ms", "max_integration_time_ms"}
               ELSE {}))

\* a float, or every float of a list, is no NaN
NaNFree(x) ==
    CASE x = NoneMsg -> TRUE
      [] x.kind = "float" -> ~IsNaN(x)
      [] x.kind = "list" -> \A i \in 1..Len(x.v) : ~IsNaN(x.v[i])
      [] OTHER -> TRUE

\* the pages decoded held no negative number, no NaN and only printable
\* text
ValidPages ==
    /\ \A field \in DOMAIN eeprom :
         /\ NaNFree(eeprom[field])
         /\ eeprom[field].kind = "int" => eeprom[field].v >= 0
    /\ \A i \in 1..Len(eeprom.bad_pixels.v) : eeprom.bad_pixels.v[i].v >= 0
    /\ eeprom.user_text.v = UntilNul(eeprom.user_data.v)

\* C22: for a record decoded from valid pages, generating the write
\* buffers and decoding them again reproduces every field whose encode and
\* decode offsets match at the format of the record
C22_RoundTripReproduces ==
    (Decoded /\ ValidPages /\ epc \in {"generated", "reparsed"}) =>
        /\ raised = "none"
        /\ epc = "reparsed" =>
             \A field \in MatchingFields : PyEq(reparsed[field], eeprom[field])

\* C23: the integration time limits decoded are the unsigned 16-bit
\* numbers at offsets 21 and 23 of page 2 when format < 5 and the unsigned
\* 32-bit numbers at offsets 40 and 44 of page 3 when format >= 5, whatever
\* the other location holds
C23_IntegrationLimitsByFormat ==
    Decoded =>
        /\ eeprom.format.v < 5 =>
             /\ eeprom.min_integration_time_ms = PyInt(WordAt(2, 21))
             /\ eeprom.max_integration_time_ms = PyInt(WordAt(2, 23))
        /\ eeprom.format.v >= 5 =>
             /\ eeprom.min_integration_time_ms = PyInt(LongAt(3, 40))
             /\ eeprom.max_integration_time_ms = PyInt(LongAt(3, 44))

C23_Witness ==
    /\ Decoded
    /\ eeprom.format.v = 4
    /\ eeprom.max_integration_time_ms = PyInt(1000)
    /\ LongAt(3, 44) = 70000

\* the active pixel and ROI fields other than active_pixels_horizontal,
\* each with its offset in page 2
RoiOffsets ==
    [active_pixels_vertical |-> 19, actual_horizontal |-> 25,
     roi_horizontal_start |-> 27, roi_horizontal_end |-> 29,
     roi_vertical_region_1_start |-> 31, roi_vertical_region_1_end |-> 33,
     roi_vertical_region_2_start |-> 35, roi_vertical_region_2_end |-> 37,
     roi_vertical_region_3_start |-> 39, roi_vertical_region_3_end |-> 41]

\* a field holds the number at its offset of page 2, read as unsigned when
\* format >= 4 and as signed when format < 4
ByFormat(field, offset) ==
    /\ eeprom.format.v >= 4 => eeprom[field] = PyInt(WordAt(2, offset))
    /\ eeprom.format.v < 4 => eeprom[field] = PyInt(SignedWordAt(2, offset))

\* C24 as stated: every active pixel and ROI field, active pixels
\* horizontal among them, decodes as unsigned 16-bit when format >= 4 and
\* as signed 16-bit when format < 4
C24_AllRoiFieldsByFormat ==
    Decoded =>
        /\ ByFormat("active_pixels_horizontal", 16)
        /\ \A field \in DOMAIN RoiOffsets : ByFormat(field, RoiOffsets[field])

\* C24: active pixels vertical, actual horizontal, the horizontal ROI start
\* and end and the start and end of the three vertical regions decode as
\* unsigned 16-bit when format >= 4 and as signed 16-bit when format < 4;
\* active pixels horizontal decodes as unsigned 16-bit at every format
C24_RoiFieldsByFormat ==
    Decoded =>
        /\ eeprom.active_pixels_horizontal = PyInt(WordAt(2, 16))
        /\ \A field \in DOMAIN RoiOffsets : ByFormat(field, RoiOffsets[field])

C24_Witness ==
    /\ Decoded
    /\ eeprom.format.v = 3
    /\ eeprom.roi_horizontal_start.v < 0
    /\ eeprom.active_pixels_horizontal.v >= 32768

\* C25: after pages whose format byte is below 3 are parsed, the startup
\* integration time, temperature and trigger scheme and the even and odd
\* detector gain and offset hold their constructor defaults, whatever the
\* pages hold at their offsets
C25_OldFormatKeepsDefaults ==
    (Decoded /\ eeprom.format.v < 3) =>
        \A field \in {"startup_integration_time_ms", "startup_temp_degC",
                      "startup_triggering_scheme", "detector_gain", "detector_offset",
                      "detector_gain_odd", "detector_offset_odd"} :
            eeprom[field] = EEPROM[field]

C25_Witness ==
    /\ Decoded
    /\ eeprom.format.v = 2
    /\ WordAt(0, 43) = 65535
    /\ eeprom.startup_integration_time_ms = PyInt(10)
    /\ eeprom.detector_gain = Double19

\* the numbers a list of ints holds
Numbers(list) == {list.v[i].v : i \in 1..Len(list.v)}

\* a list of ints ascends strictly
Ascending(list) == \A i \in 1..(Len(list.v) - 1) : list.v[i].v < list.v[i + 1].v

\* the number in bad pixel slot i (counted from 1) of the buffers written
WrittenSlot(i) ==
    LET word == write_buffers[6].v[2 * i - 1] + 256 * write_buffers[6].v[2 * i]
    IN  IF word >= 32768 THEN word - 65536 ELSE word

\* the least of the bad pixels of self that are not negative, as many as
\* page 5 has slots
KeptBadPixels ==
    LET all == Sorted({x \in Numbers(eeprom.bad_pixels) : x >= 0})
    IN  SubSeq(all, 1, Min2(Len(all), BadPixelSlots))

C27_OnlyEditableFieldsChange ==
    epc = "updated" =>
        /\ \A field \in (DOMAIN eeprom) \ editable : eeprom[field] = before[field]
        /\ new_eeprom \in NewEeproms

C27_Witness ==
    /\ epc = "updated"
    /\ eeprom.bad_pixels # before.bad_pixels
    /\ eeprom.bad_pixels = new_eeprom.bad_pixels
    /\ eeprom.slit_size_um # new_eeprom.slit_size_um
    /\ eeprom.format # new_eeprom.format

(***************************************************************************)
(* Properties of coeffs_look_valid and the laser power conversion          *)
(***************************************************************************)
\* the list passed to coeffs_look_valid holds a NaN
HasNaN(coeffs) == coeffs # NoneMsg /\ \E i \in 1..Len(coeffs.v) : IsNaN(coeffs.v[i])

\* the never-calibrated pattern 0, 1, 0, 0, ...
DefaultPattern(coeffs) ==
    /\ coeffs # NoneMsg
    /\ Len(coeffs.v) >= 2
    /\ \A i \in 1..Len(coeffs.v) : coeffs.v[i] = IF i = 2 THEN FloatOne ELSE FloatZero

\* every coefficient of a list that is not empty is c
AllEqual(coeffs, c) ==
    /\ coeffs # NoneMsg
    /\ coeffs.v # <<>>
    /\ \A i \in 1..Len(coeffs.v) : coeffs.v[i] = c

\* the length differs from the count expected
CountDiffers(coeffs, cnt) == coeffs # NoneMsg /\ cnt # NoneMsg /\ Len(coeffs.v) # cnt.v

\* the cases the sanity check is to report invalid without raising
Degenerate(coeffs, cnt) ==
    \/ DefaultPattern(coeffs)
    \/ AllEqual(coeffs, FloatMinusOne)
    \/ AllEqual(coeffs, FloatZero)
    \/ CountDiffers(coeffs, cnt)

\* C28: coeffs_look_valid reports invalid whenever any coefficient of the
\* sequence is NaN, wherever the NaN stands and whatever the others are
C28_NaNIsInvalid ==
    (looked # "none" /\ HasNaN(eeprom.laser_power_coeffs)) => looked = "False"

\* C29: coeffs_look_valid returns False and does not raise for the pattern
\* 0, 1, 0, 0, ..., for a sequence of all -1.0 or all 0.0 and for a length
\* that differs from the count; it returns True for any other sequence
\* without a NaN
C29_DegenerateIsInvalid ==
    (looked # "none" /\ eeprom.laser_power_coeffs # NoneMsg /\ eeprom.laser_power_coeffs.v # <<>>) =>
        /\ Degenerate(eeprom.laser_power_coeffs, coeff_count) => looked = "False"
        /\ (~Degenerate(eeprom.laser_power_coeffs, coeff_count)
              /\ ~HasNaN(eeprom.laser_power_coeffs)) => looked = "True"

\* C30: laser_power_mW_to_percent returns 0 and does not raise when the
\* maximum laser power is not positive or the laser power coefficients fail
\* the sanity check, the never-calibrated pattern included
C30_NoCalibrationGivesZero ==
    (/\ percent # "none"
     /\ \/ FloatLE0(eeprom.max_laser_power_mW)
        \/ eeprom.laser_power_coeffs = NoneMsg
        \/ HasNaN(eeprom.laser_power_coeffs)
        \/ Degenerate(eeprom.laser_power_coeffs, PyInt(LaserPowerCoeffCount)))
    => percent = "0"

(***************************************************************************)
(* Properties of the write buffers and of printable                        *)
(***************************************************************************)
\* C31: after generate_write_buffers there are six pages of 64 bytes whose
\* last bytes are 1, 1, 2, 255, 1, 1 for pages 0 to 5, page 0 holding 5
\* when the latest revision is in use, and no field written has altered
\* byte 63 of a page
C31_RevisionBytesKept ==
    epc \in {"generated", "reparsed"} =>
        /\ Len(write_buffers) = 6
        /\ \A page \in 1..6 : Len(write_buffers[page].v) = 64
        /\ write_buffers[1].v[64] = IF USE_REV_4 THEN 5 ELSE 1
        /\ write_buffers[2].v[64] = 1
        /\ write_buffers[3].v[64] = 2
        /\ write_buffers[4].v[64] = 255
        /\ write_buffers[5].v[64] = 1
        /\ write_buffers[6].v[64] = 1

C31_Witness ==
    /\ epc = "generated"
    /\ raised = "none"
    /\ write_buffers[2].v[63] = 255
    /\ write_buffers[5].v[63] = 46
    /\ write_buffers[3].v[63] # 0

\* the bytes of a sequence before its first zero byte
BeforeZero(b) ==
    LET zeros == {i \in 1..Len(b) : b[i] = 0}
    IN  IF zeros = {} THEN b ELSE SubSeq(b, 1, (CHOOSE i \in zeros : \A j \in zeros : i <= j) - 1)

\* C33: printable renders each byte in 32..126 as its character and any
\* other byte that is not zero as '.', and stops at the first zero byte:
\* the string is no longer than the bytes and holds nothing from after the
\* first zero; [72,101,0,255,65] gives "He" and [200,65] gives ".A"
C33_PrintableRendering ==
    (printed # NoneMsg /\ printed.text # NoneMsg) =>
        LET kept == BeforeZero(printed.buf)
            text == printed.text.v
        IN  /\ Len(text) = Len(kept)
            /\ Len(text) <= Len(printed.buf)
            /\ \A i \in 1..Len(kept) :
                 text[i] = IF kept[i] >= 32 /\ kept[i] <= 126 THEN kept[i] ELSE 46
            /\ printed.buf = <<72, 101, 0, 255, 65>> => text = <<72, 101>>
            /\ printed.buf = <<200, 65>> => text = <<46, 65>>

C33_Witness ==
    /\ printed # NoneMsg
    /\ printed.buf = <<72, 101, 0, 255, 65>>
    /\ printed.text = PyStr(<<72, 101>>)

\* the least of two numbers, written apart from the model's operators
AtMost65535(x) == IF x > 65535 THEN 65535 ELSE x

\* the number at an offset of a page written, 16 or 32 bits wide
WrittenWord(page, offset) ==
    write_buffers[page + 1].v[offset + 1] + 256 * write_buffers[page + 1].v[offset + 2]

WrittenLong(page, offset) == WrittenWord(page, offset) + 65536 * WrittenWord(page, offset + 2)

\* C40: generate_write_buffers completes for a record whose integration
\* time limits lie in the unsigned 32-bit range, writes them unchanged at
\* offsets 40 and 44 of page 3 and writes them, limited to 65535, at
\* offsets 21 and 23 of page 2
C40_IntegrationLimitsWritten ==
    (buffers # <<>> /\ epc \in {"generated", "reparsed"}
        /\ eeprom.min_integration_time_ms # NoneMsg /\ eeprom.max_integration_time_ms # NoneMsg) =>
        /\ raised = "none"
        /\ WrittenLong(3, 40) = eeprom.min_integration_time_ms.v
        /\ WrittenLong(3, 44) = eeprom.max_integration_time_ms.v
        /\ WrittenWord(2, 21) = AtMost65535(eeprom.min_integration_time_ms.v)
        /\ WrittenWord(2, 23) = AtMost65535(eeprom.max_integration_time_ms.v)

(***************************************************************************)
(* Properties of parse on damaged pages                                    *)
(***************************************************************************)
\* a value is no None, and holds no None if it is a list
Substituted(x) ==
    /\ x # NoneMsg
    /\ x.kind = "list" => \A i \in 1..Len(x.v) : x.v[i] # NoneMsg

\* C32: when the bytes of a field lie beyond its page, parse puts a zero
\* or an empty value in that field and decodes every other field; a short
\* or malformed page never aborts the parse of the record
C32_DamagedPageSubstituted ==
    epc = "parsed" =>
        /\ raised = "none"
        /\ \A field \in DOMAIN eeprom : Substituted(eeprom[field])

(***************************************************************************)
(* Properties of the worker's exit and of the wrapper's life cycle         *)
(***************************************************************************)
\* the positions of a worker inside the while loop of continuous_poll
InLoop == {"loop", "acquire"}

\* C34: once a poison pill is on the command queue with the worker in its
\* loop, the worker eventually leaves the loop and puts a poison pill on
\* the response queue, whatever commands are enqueued around the poison
\* pill, unless the worker is terminated first
C34_PoisonEventuallyAnswered ==
    \A w \in Workers :
        [](wpc[w] \in InLoop /\ HasNone(command_queue)
             => <>(wpc[w] = "terminated" \/ poison_puts[w] >= 1))

\* the worker processes that are running
Running == {w \in DOMAIN wpc : wpc[w] \in Alive}

\* C35: at most one worker forked by the wrapper is running at any time,
\* across any sequence of connect, failed connect and disconnect calls
C35_AtMostOneWorker == Cardinality(Running) <= 1

\* C37: in LATEST and KEEP_COMPLETE modes (and with no mode) a call that
\* finds a poison pill pending takes the items up to and including the
\* first poison pill off the response queue; it returns the last averaged
\* reading ahead of the poison pill when KEEP_COMPLETE kept one, and None
\* otherwise, whatever readings it drained
C37_PoisonEndsDrain ==
    (AcquiredIn({"LATEST", "KEEP_COMPLETE", "None"}) /\ HasNone(acquired.pending)) =>
        /\ acquired.left = AfterPoison(acquired.pending)
        /\ ret.item = IF ret.got # "LATEST" /\ AveragedOf(BeforePoison(acquired.pending)) # <<>>
                      THEN LastOf(AveragedOf(BeforePoison(acquired.pending)))
                      ELSE NoneMsg
        /\ ret.value = ValueOf(ret.item)

\* C37 witness: LATEST has drained two readings and the poison pill behind
\* them, and returned None
C37_Witness ==
    /\ AcquiredIn({"LATEST"})
    /\ HasNone(acquired.pending)
    /\ Len(BeforePoison(acquired.pending)) >= 2
    /\ acquired.left = <<>>
    /\ ret.value = "None"

\* C38: the iteration of a worker that finds a poison pill in the list
\* dedupe returns passes every other record of that list to the device,
\* those behind the poison pill included, in the order of the list, and
\* then leaves the loop
C38_WholeBatchApplied ==
    [][\A w \in Workers :
         (wpc[w] = "loop" /\ wpc'[w] # "loop" /\ HasNone(Dedupe(command_queue))) =>
            /\ wpc'[w] = "exit"
            /\ applied'[w] = SelectSeq(Dedupe(command_queue), IsControlObject)]_vars

\* C38 witness: a worker leaves the loop having applied a command dedupe
\* returned behind the poison pill, after one it returned ahead of it
C38_Witness ==
    \E w \in Workers :
        /\ wpc[w] = "exit"
        /\ dequeued_poison[w]
        /\ Len(applied[w]) = 2
        /\ Dedupe(dd_pending)[2] = NoneMsg

\* a step of acquire_data: the call runs from start to end with the
\* MainProcess idle
AcquireDataStep == ret'.op = "acquire_data" /\ UNCHANGED <<cpc, wpc, changes>>

\* C36: the closing flag, once set by disconnect or by a failed connect, is
\* never cleared; while it is set acquire_data returns None in every mode
\* and takes nothing off the response queue
C36_ClosingStaysAndBlocks ==
    /\ [][closing => closing']_vars
    /\ [][(closing /\ AcquireDataStep) =>
             /\ ret'.value = "None"
             /\ response_queue' = response_queue]_vars
    /\ [](acquired.closing => acquired.left = acquired.pending)

\* C36 witness: after a failed connect set the flag and a later worker left
\* its poison pill on the response queue, acquire_data in KEEP_ALL mode has
\* returned None and left the poison pill
C36_Witness ==
    /\ ret.op = "acquire_data"
    /\ ret.got = "KEEP_ALL"
    /\ ret.value = "None"
    /\ acquired.closing
    /\ HasNone(acquired.pending)
    /\ acquired.left = acquired.pending
    /\ disconnects = 0

\* a step that is a call of connect: the MainProcess was idle, the step
\* is no step of a worker already forked, and connect is the method the
\* MainProcess is left in or has returned from
ConnectStep ==
    /\ cpc = "idle"
    /\ ret'.op = "connect"
    /\ \A w \in DOMAIN wpc : wpc[w] # "unborn" => wpc'[w] = wpc[w]

\* C39: once a connect has succeeded and disconnect has been called, every
\* connect returns False, forks no worker and leaves the three queues as
\* they are
C39_NoReconnect ==
    [][(settings # NoneMsg /\ disconnects >= 1 /\ ConnectStep) =>
          /\ ret'.value = "False"
          /\ cpc' = "idle"
          /\ UNCHANGED <<wpc, poller, queues>>]_vars

\* C39 witness: connect has been refused after a successful connect and a
\* disconnect that ended the worker, with a worker left to fork
C39_Witness ==
    /\ ret = Returned("connect", "False", NoneMsg, "refused")
    /\ settings # NoneMsg
    /\ disconnects >= 1
    /\ Unborn # {}
    /\ Running = {}

====
